---- MODULE Spec2Model ----
(***************************************************************************)
(* cairn-fuse (src/cairn-fuse/src/main.rs): a FUSE filesystem that mirrors *)
(* a real directory tree and keeps an inode-indexed attribute table.       *)
(*                                                                         *)
(* The model holds the real filesystem under the mirrored root (directory  *)
(* entries and inodes), the TracerFS attribute table `attrs`, and one      *)
(* action per Filesystem handler.  Paths are sequences of names relative   *)
(* to the mirrored root; <<>> is the root itself.                          *)
(***************************************************************************)
EXTENDS Integers, Sequences, FiniteSets, TLC

(***************************************************************************)
(* Bounds of the model.                                                    *)
(***************************************************************************)
MaxDepth == 2       \* longest path below the root, in components
MaxIno == 6         \* largest real inode number the model allocates
MaxOps == 2         \* handler calls after init() in one behaviour
MaxCap == 2         \* largest reply-buffer capacity of ReadDirectory, in entries
MaxCalls == 4       \* ReadDirectory calls in one listing session

NameSeq == <<"a", "b", "c">>
Names == {NameSeq[i] : i \in 1..Len(NameSeq)}
Paths == UNION {[1..n -> Names] : n \in 0..MaxDepth}
RealInos == 2..MaxIno

(***************************************************************************)
(* Program constants.                                                      *)
(***************************************************************************)
FUSE_ROOT_ID == 1
S_IFMT == 61440     \* 0o170000
S_IFREG == 32768    \* 0o100000
S_IFDIR == 16384    \* 0o040000
S_IFLNK == 40960    \* 0o120000
S_IFIFO == 4096     \* 0o010000, a type mknod() does not support
RootRealIno == 2    \* the mirrored root's own inode number on the real filesystem

(***************************************************************************)
(* 64-bit and 32-bit unsigned integers.  TLC's integers are 32-bit signed, *)
(* so a u64 is four 16-bit limbs, least significant first; a u32 is a u64  *)
(* whose two upper limbs are zero.                                         *)
(***************************************************************************)
Base == 2^16
Limbs == 0..(Base - 1)
Zero64 == <<0, 0, 0, 0>>
Max64 == <<Base - 1, Base - 1, Base - 1, Base - 1>>
Two32 == <<0, 0, 1, 0>>                  \* 2^32

\* n < 2^31 as a u64
U64(n) == <<n % Base, (n \div Base) % Base, 0, 0>>

\* the value of a u64 known to be below 2^31
Nat64(x) == x[1] + Base * x[2]
IsSmall(x) == x[3] = 0 /\ x[4] = 0 /\ x[2] < 2^14

Lt64(x, y) ==
    \/ x[4] < y[4]
    \/ x[4] = y[4] /\ x[3] < y[3]
    \/ x[4] = y[4] /\ x[3] = y[3] /\ x[2] < y[2]
    \/ x[4] = y[4] /\ x[3] = y[3] /\ x[2] = y[2] /\ x[1] < y[1]

\* x - y modulo 2^64 (wrapping_sub)
Sub64(x, y) ==
    LET d1 == x[1] - y[1]
        b1 == IF d1 < 0 THEN 1 ELSE 0
        d2 == x[2] - y[2] - b1
        b2 == IF d2 < 0 THEN 1 ELSE 0
        d3 == x[3] - y[3] - b2
        b3 == IF d3 < 0 THEN 1 ELSE 0
        d4 == x[4] - y[4] - b3
    IN  <<d1 % Base, d2 % Base, d3 % Base, d4 % Base>>

\* x + y modulo 2^64 (wrapping_add)
Add64(x, y) ==
    LET s1 == x[1] + y[1]
        s2 == x[2] + y[2] + (s1 \div Base)
        s3 == x[3] + y[3] + (s2 \div Base)
        s4 == x[4] + y[4] + (s3 \div Base)
    IN  <<s1 % Base, s2 % Base, s3 % Base, s4 % Base>>

\* u64::saturating_sub
saturating_sub(x, y) == IF Lt64(x, y) THEN Zero64 ELSE Sub64(x, y)

\* `x as u32` of a u64: the low 32 bits
AsU32(x) == <<x[1], x[2], 0, 0>>

\* std::cmp::min on unsigned values
min(x, y) == IF Lt64(y, x) THEN y ELSE x

\* An i64 is [neg, mag]: its sign and its magnitude (mag > 0 when neg).
\* `v as u64` reinterprets the two's-complement bits.
I64(n) == [neg |-> n < 0, mag |-> U64(IF n < 0 THEN 0 - n ELSE n)]
I64AsU64(v) == IF v.neg THEN Sub64(Zero64, v.mag) ELSE v.mag

(***************************************************************************)
(* The real filesystem under the mirrored root.                            *)
(*   F.dents  : Paths -> inode number, 0 where no entry exists             *)
(*   F.inodes : RealInos -> node (kind "Free" when not allocated)          *)
(*   F.next   : the inode number the next created entry gets               *)
(* A regular file's bytes are `data` (the first min(len, Window) bytes)    *)
(* followed by zero bytes up to `len`; only set_len makes a file longer    *)
(* than Window.                                                            *)
(***************************************************************************)
Window == 3         \* bytes of a file kept explicitly
Fuel == MaxIno      \* nested symlinks followed before ELOOP

FreeNode ==
    [kind |-> "Free", mode |-> 0, uid |-> 0, gid |-> 0, atime |-> <<0, 0>>,
     mtime |-> <<0, 0>>, data |-> <<>>, len |-> Zero64, target |-> <<>>]

\* A node as the real filesystem creates it for the serving process (uid 0,
\* umask 022) at time `now`.
NewNode(kind, now, target) ==
    [kind |-> kind,
     mode |-> CASE kind = "File" -> S_IFREG + 420         \* 0o644
                [] kind = "Directory" -> S_IFDIR + 493    \* 0o755
                [] OTHER -> S_IFLNK + 511,                \* 0o777
     uid |-> 0, gid |-> 0, atime |-> <<now, 0>>, mtime |-> <<now, 0>>,
     data |-> <<>>, len |-> IF kind = "Directory" THEN U64(4096) ELSE Zero64,
     target |-> target]

Dir(p) == SubSeq(p, 1, Len(p) - 1)
Leaf(p) == p[Len(p)]
IsPrefix(p, q) == Len(p) <= Len(q) /\ SubSeq(q, 1, Len(p)) = p
Exists(F, p) == Len(p) <= MaxDepth /\ F.dents[p] # 0
NodeAt(F, p) == F.inodes[F.dents[p]]
Children(F, p) == {q \in Paths : Len(q) = Len(p) + 1 /\ IsPrefix(p, q) /\ F.dents[q] # 0}

\* st_nlink: names of a non-directory; 2 + subdirectories of a directory
NLink(F, ino) ==
    IF F.inodes[ino].kind = "Directory"
    THEN 2 + Cardinality({q \in Paths : /\ F.dents[q] # 0
                                        /\ Len(q) > 0
                                        /\ F.dents[Dir(q)] = ino
                                        /\ F.inodes[F.dents[q]].kind = "Directory"})
    ELSE Cardinality({q \in Paths : F.dents[q] = ino})

(***************************************************************************)
(* Path resolution of the real filesystem.  `cur` is the canonical path of *)
(* an existing directory, `rest` the components still to walk.  A symlink  *)
(* met on the way (or as the last component when `follow`) is replaced by  *)
(* its target, at most `fuel` times.  The result is [err, path]: the       *)
(* canonical path of the entry, or the error of the walk.                  *)
(***************************************************************************)
RECURSIVE WalkFrom(_, _, _, _, _)
WalkFrom(F, cur, rest, follow, fuel) ==
    IF rest = <<>> THEN [err |-> "", path |-> cur]
    ELSE
    LET p == Append(cur, Head(rest))
        more == Len(rest) > 1
    IN  IF ~Exists(F, p) THEN [err |-> "ENOENT", path |-> p]
        ELSE IF NodeAt(F, p).kind = "Symlink" /\ (more \/ follow)
        THEN IF fuel = 0 THEN [err |-> "ELOOP", path |-> p]
             ELSE LET t == WalkFrom(F, <<>>, NodeAt(F, p).target, TRUE, fuel - 1)
                  IN  IF t.err # "" THEN t
                      ELSE IF ~more THEN t
                      ELSE IF NodeAt(F, t.path).kind # "Directory"
                      THEN [err |-> "ENOTDIR", path |-> t.path]
                      ELSE WalkFrom(F, t.path, Tail(rest), follow, fuel)
        ELSE IF ~more THEN [err |-> "", path |-> p]
        ELSE IF NodeAt(F, p).kind # "Directory" THEN [err |-> "ENOTDIR", path |-> p]
        ELSE WalkFrom(F, p, Tail(rest), follow, fuel)

Resolve(F, p, follow) == WalkFrom(F, <<>>, p, follow, Fuel)

\* The directory a new or removed name lives in: the parent of p, resolved.
ResolveParent(F, p) ==
    LET r == Resolve(F, Dir(p), TRUE)
    IN  IF r.err # "" THEN r
        ELSE IF NodeAt(F, r.path).kind # "Directory"
        THEN [err |-> "ENOTDIR", path |-> r.path]
        ELSE r

\* fs::metadata(path): stat(2), follows symlinks.  [err, ino]
Stat(F, p) ==
    LET r == Resolve(F, p, TRUE)
    IN  IF r.err # "" THEN [err |-> r.err, ino |-> 0]
        ELSE [err |-> "", ino |-> F.dents[r.path]]

\* DirEntry::metadata() of read_dir and of WalkDir: lstat(2), no follow.
LStat(F, p) ==
    LET r == Resolve(F, p, FALSE)
    IN  IF r.err # "" THEN [err |-> r.err, ino |-> 0]
        ELSE [err |-> "", ino |-> F.dents[r.path]]

(***************************************************************************)
(* InodeAttributes.                                                        *)
(***************************************************************************)
\* as_file_kind(mode); the model's trees hold no other type, so the
\* unimplemented!() arm is never taken.
as_file_kind(mode) ==
    LET t == ((mode \div 4096) % 16) * 4096     \* mode & S_IFMT
    IN  CASE t = S_IFREG -> "File"
          [] t = S_IFLNK -> "Symlink"
          [] t = S_IFDIR -> "Directory"
          [] OTHER -> "Unimplemented"

\* impl From<(fs::Metadata, String)> for InodeAttributes, for the metadata
\* of inode `ino`.  blksize, blocks and rdev are passed through unread by
\* every handler and are left out.
FromMetadata(F, ino, real_path) ==
    LET n == F.inodes[ino]
    IN  [ino |-> ino, uid |-> n.uid, gid |-> n.gid, mode |-> n.mode,
         atime |-> n.atime, mtime |-> n.mtime, kind |-> as_file_kind(n.mode),
         len |-> n.len, nlinks |-> NLink(F, ino), real_path |-> real_path]

(***************************************************************************)
(* Operations of the real filesystem, as the std::fs calls of the handlers *)
(* reach them.  Each yields [err, fs]: the errno ("" on success) and the   *)
(* filesystem afterwards.  "BOUND" marks a result outside the model's      *)
(* bounds (a path deeper than MaxDepth, no inode number left); the actions *)
(* do not take such calls.                                                 *)
(***************************************************************************)
Fail(F, e) == [err |-> e, fs |-> F]
Done(F) == [err |-> "", fs |-> F]

Touch(inodes, ino, now) == [inodes EXCEPT ![ino].mtime = <<now, 0>>]

\* A new entry q (its parent exists) holding a fresh node.
AddEntry(F, q, node, now) ==
    IF Len(q) > MaxDepth \/ F.next > MaxIno THEN Fail(F, "BOUND")
    ELSE Done([dents |-> [F.dents EXCEPT ![q] = F.next],
               inodes |-> Touch([F.inodes EXCEPT ![F.next] = node], F.dents[Dir(q)], now),
               next |-> F.next + 1])

\* The entry q dropped; its inode is freed with its last name.
DropEntry(F, q, now) ==
    LET ino == F.dents[q]
        d == [F.dents EXCEPT ![q] = 0]
        gone == \A r \in Paths : d[r] # ino
        i1 == IF gone THEN [F.inodes EXCEPT ![ino] = FreeNode] ELSE F.inodes
    IN  [dents |-> d, inodes |-> Touch(i1, F.dents[Dir(q)], now), next |-> F.next]

\* File::create(path): open(O_WRONLY | O_CREAT | O_TRUNC), follows symlinks
\* and creates the target of a dangling one.
RECURSIVE FsCreateFile(_, _, _, _)
FsCreateFile(F, p, now, fuel) ==
    IF p = <<>> THEN Fail(F, "EISDIR")
    ELSE
    LET par == ResolveParent(F, p)
        q == Append(par.path, Leaf(p))
    IN  IF par.err # "" THEN Fail(F, par.err)
        ELSE IF ~Exists(F, q) THEN AddEntry(F, q, NewNode("File", now, <<>>), now)
        ELSE CASE NodeAt(F, q).kind = "Directory" -> Fail(F, "EISDIR")
               [] NodeAt(F, q).kind = "Symlink" ->
                    IF fuel = 0 THEN Fail(F, "ELOOP")
                    ELSE FsCreateFile(F, NodeAt(F, q).target, now, fuel - 1)
               [] OTHER ->
                    Done([F EXCEPT !.inodes[F.dents[q]].data = <<>>,
                                   !.inodes[F.dents[q]].len = Zero64,
                                   !.inodes[F.dents[q]].mtime = <<now, 0>>])

\* fs::create_dir(path): mkdir(2)
FsCreateDir(F, p, now) ==
    LET par == ResolveParent(F, p)
        q == Append(par.path, Leaf(p))
    IN  IF par.err # "" THEN Fail(F, par.err)
        ELSE IF Exists(F, q) THEN Fail(F, "EEXIST")
        ELSE AddEntry(F, q, NewNode("Directory", now, <<>>), now)

\* std::os::unix::fs::symlink(link, path): symlink(2); the target is not checked
FsSymlink(F, link, p, now) ==
    LET par == ResolveParent(F, p)
        q == Append(par.path, Leaf(p))
    IN  IF par.err # "" THEN Fail(F, par.err)
        ELSE IF Exists(F, q) THEN Fail(F, "EEXIST")
        ELSE AddEntry(F, q, NewNode("Symlink", now, link), now)

\* fs::remove_file(path): unlink(2), removes the name itself (no follow)
FsRemoveFile(F, p, now) ==
    LET par == ResolveParent(F, p)
        q == Append(par.path, Leaf(p))
    IN  IF par.err # "" THEN Fail(F, par.err)
        ELSE IF ~Exists(F, q) THEN Fail(F, "ENOENT")
        ELSE IF NodeAt(F, q).kind = "Directory" THEN Fail(F, "EISDIR")
        ELSE Done(DropEntry(F, q, now))

\* fs::remove_dir(path): rmdir(2)
FsRemoveDir(F, p, now) ==
    LET par == ResolveParent(F, p)
        q == Append(par.path, Leaf(p))
    IN  IF par.err # "" THEN Fail(F, par.err)
        ELSE IF ~Exists(F, q) THEN Fail(F, "ENOENT")
        ELSE IF NodeAt(F, q).kind # "Directory" THEN Fail(F, "ENOTDIR")
        ELSE IF Children(F, q) # {} THEN Fail(F, "ENOTEMPTY")
        ELSE Done(DropEntry(F, q, now))

\* fs::rename(from, to): rename(2).  A directory moves with everything below it;
\* an entry already at `to` is replaced.
FsRename(F, from, to, now) ==
    LET pf == ResolveParent(F, from)
        pt == ResolveParent(F, to)
        qf == Append(pf.path, Leaf(from))
        qt == Append(pt.path, Leaf(to))
        isDir == NodeAt(F, qf).kind = "Directory"
        below == {r \in Paths : IsPrefix(qf, r) /\ F.dents[r] # 0}
        moved(r) == qt \o SubSeq(r, Len(qf) + 1, Len(r))
        old == IF Exists(F, qt) THEN F.dents[qt] ELSE 0
        d == [r \in Paths |->
                IF IsPrefix(qt, r)
                THEN LET src == qf \o SubSeq(r, Len(qt) + 1, Len(r))
                     IN  IF Len(src) <= MaxDepth THEN F.dents[src] ELSE 0
                ELSE IF IsPrefix(qf, r) THEN 0
                ELSE F.dents[r]]
        gone == old # 0 /\ \A r \in Paths : d[r] # old
        i1 == IF gone THEN [F.inodes EXCEPT ![old] = FreeNode] ELSE F.inodes
        i2 == Touch(Touch(i1, F.dents[pf.path], now), F.dents[pt.path], now)
    IN  IF pf.err # "" THEN Fail(F, pf.err)
        ELSE IF ~Exists(F, qf) THEN Fail(F, "ENOENT")
        ELSE IF pt.err # "" THEN Fail(F, pt.err)
        ELSE IF qf = qt THEN Done(F)
        ELSE IF isDir /\ IsPrefix(qf, qt) THEN Fail(F, "EINVAL")
        ELSE IF Len(qt) > MaxDepth \/ \E r \in below : Len(moved(r)) > MaxDepth
        THEN Fail(F, "BOUND")
        ELSE IF old = F.dents[qf] THEN Done(F)
        ELSE IF old # 0 /\ isDir /\ F.inodes[old].kind # "Directory" THEN Fail(F, "ENOTDIR")
        ELSE IF old # 0 /\ ~isDir /\ F.inodes[old].kind = "Directory" THEN Fail(F, "EISDIR")
        ELSE IF old # 0 /\ Children(F, qt) # {} THEN Fail(F, "ENOTEMPTY")
        ELSE Done([dents |-> d, inodes |-> i2, next |-> F.next])

\* fs::hard_link(original, link): linkat(2) with no AT_SYMLINK_FOLLOW.  `slash`
\* says that `original` ends in a path separator, which makes the kernel
\* resolve it as a directory (following a final symlink) and fail with
\* ENOTDIR on anything else.  Directories cannot be hard-linked (EPERM).
FsHardLink(F, original, slash, link, now) ==
    LET o == Resolve(F, original, slash)
        pl == ResolveParent(F, link)
        ql == Append(pl.path, Leaf(link))
    IN  IF o.err # "" THEN Fail(F, o.err)
        ELSE IF slash /\ NodeAt(F, o.path).kind # "Directory" THEN Fail(F, "ENOTDIR")
        ELSE IF link = <<>> THEN Fail(F, "EEXIST")
        ELSE IF pl.err # "" THEN Fail(F, pl.err)
        ELSE IF Exists(F, ql) THEN Fail(F, "EEXIST")
        ELSE IF NodeAt(F, o.path).kind = "Directory" THEN Fail(F, "EPERM")
        ELSE IF Len(ql) > MaxDepth THEN Fail(F, "BOUND")
        ELSE Done([dents |-> [F.dents EXCEPT ![ql] = F.dents[o.path]],
                   inodes |-> Touch(F.inodes, F.dents[pl.path], now),
                   next |-> F.next])

\* fs::set_permissions(path, from_mode(mode)): chmod(2), follows symlinks;
\* the type bits of the inode stay.
FsSetPermissions(F, p, mode) ==
    LET st == Stat(F, p)
        n == F.inodes[st.ino]
    IN  IF st.err # "" THEN Fail(F, st.err)
        ELSE Done([F EXCEPT !.inodes[st.ino].mode =
                                ((n.mode \div 4096) * 4096) + (mode % 4096)])

\* std::os::unix::fs::chown(path, uid, gid): chown(2), follows symlinks.
\* None is -1: that id is left alone.
FsChown(F, p, uid, gid) ==
    LET st == Stat(F, p)
        n == F.inodes[st.ino]
    IN  IF st.err # "" THEN Fail(F, st.err)
        ELSE Done([F EXCEPT !.inodes[st.ino].uid = IF uid = -1 THEN n.uid ELSE uid,
                            !.inodes[st.ino].gid = IF gid = -1 THEN n.gid ELSE gid])

\* utime::set_file_times(path, atime, mtime): utime(2) with whole seconds,
\* follows symlinks; the nanoseconds of both times become 0.
FsSetFileTimes(F, p, atime, mtime) ==
    LET st == Stat(F, p)
    IN  IF st.err # "" THEN Fail(F, st.err)
        ELSE Done([F EXCEPT !.inodes[st.ino].atime = <<atime, 0>>,
                            !.inodes[st.ino].mtime = <<mtime, 0>>])

\* OpenOptions::new().write(true).open(path): [err, ino]
FsOpenWrite(F, p) ==
    LET st == Stat(F, p)
    IN  IF st.err # "" THEN st
        ELSE IF F.inodes[st.ino].kind = "Directory" THEN [err |-> "EISDIR", ino |-> 0]
        ELSE st

\* File::open(path), read only: [err, ino].  A directory opens.
FsOpenRead(F, p) == Stat(F, p)

\* The explicit bytes of a file of length len whose bytes are `data` then zeros.
Explicit(data, len) ==
    LET n == IF IsSmall(len) /\ Nat64(len) < Window THEN Nat64(len) ELSE Window
    IN  [i \in 1..n |-> IF i <= Len(data) THEN data[i] ELSE 0]

\* file.set_len(size) on the open file `ino`: ftruncate(2)
FsSetLen(F, ino, size, now) ==
    Done([F EXCEPT !.inodes[ino].len = size,
                   !.inodes[ino].data = Explicit(F.inodes[ino].data, size),
                   !.inodes[ino].mtime = <<now, 0>>])

\* file.seek(SeekFrom::Start(offset as u64)) then file.write_all(data) on the
\* open file `ino`.  lseek(2) refuses an offset above i64::MAX with EINVAL.
\* write_all of no bytes makes no write(2) call.
FsWriteAt(F, ino, offset, data, now) ==
    LET n == F.inodes[ino]
        off == Nat64(offset.mag)
        end == off + Len(data)
        bytes == [i \in 1..end |->
                    IF i > off THEN data[i - off]
                    ELSE IF i <= Len(n.data) THEN n.data[i] ELSE 0]
        len1 == IF Lt64(n.len, U64(end)) THEN U64(end) ELSE n.len
    IN  IF offset.neg THEN Fail(F, "EINVAL")
        ELSE IF data = <<>> THEN Done(F)
        ELSE IF ~IsSmall(offset.mag) \/ end > Window THEN Fail(F, "BOUND")
        ELSE Done([F EXCEPT !.inodes[ino].len = len1,
                            !.inodes[ino].data =
                                Explicit(bytes \o SubSeq(n.data, end + 1, Len(n.data)), len1),
                            !.inodes[ino].mtime = <<now, 0>>])

\* The byte at position pos (a u64) of a file
ByteAt(n, pos) ==
    IF IsSmall(pos) /\ Nat64(pos) < Len(n.data) THEN n.data[Nat64(pos) + 1] ELSE 0

\* file.read_exact_at(buffer, offset) for a buffer of `count` bytes that lie
\* within the file: the bytes at offset .. offset + count - 1
FsReadExactAt(F, ino, offset, count) ==
    [i \in 1..count |-> ByteAt(F.inodes[ino], Add64(offset, U64(i - 1)))]

\* fs::read_dir(path): the names in the directory, without "." and "..", in
\* the directory's own order (here: the order of the names), each with the
\* lstat inode and kind that DirEntry::metadata() reports.
ReadDirNames(F, p) == SelectSeq(NameSeq, LAMBDA n : Exists(F, Append(p, n)))
FsReadDir(F, p) ==
    LET names == ReadDirNames(F, p)
    IN  [i \in 1..Len(names) |->
            LET ino == F.dents[Append(p, names[i])]
            IN  [ino |-> ino, kind |-> as_file_kind(F.inodes[ino].mode), name |-> names[i]]]

(***************************************************************************)
(* TracerFS.  The table `attrs: BTreeMap<u64, InodeAttributes>` is a       *)
(* function from its keys to records.  A handler is an operator from the   *)
(* table T, the real filesystem F and the request's arguments to           *)
(*   [attrs, fs, reply, panic]                                             *)
(* the table and filesystem it leaves, what it sent through its reply      *)
(* sink, and whether it panicked.  reply.n counts the calls the handler    *)
(* made on the sink.                                                       *)
(***************************************************************************)
NoAttrs ==
    [ino |-> 0, uid |-> 0, gid |-> 0, mode |-> 0, atime |-> <<0, 0>>, mtime |-> <<0, 0>>,
     kind |-> "None", len |-> Zero64, nlinks |-> 0, real_path |-> <<>>]

Insert(T, k, v) == [x \in (DOMAIN T) \cup {k} |-> IF x = k THEN v ELSE T[x]]
Remove(T, k) == [x \in (DOMAIN T) \ {k} |-> T[x]]

\* ttl is the validity duration of an entry or attr reply, <<secs, nanos>>:
\* every such reply of the code passes Duration::new(0, 0).
NoReply ==
    [n |-> 0, kind |-> "none", err |-> "", rec |-> NoAttrs, data |-> <<>>, ttl |-> <<>>]
ReplyError(e) ==
    [n |-> 1, kind |-> "error", err |-> e, rec |-> NoAttrs, data |-> <<>>, ttl |-> <<>>]
ReplyOk(kind) ==
    [n |-> 1, kind |-> kind, err |-> "", rec |-> NoAttrs, data |-> <<>>, ttl |-> <<>>]
ReplyRec(kind, rec) ==
    [n |-> 1, kind |-> kind, err |-> "", rec |-> rec, data |-> <<>>, ttl |-> <<0, 0>>]
ReplyData(kind, data) ==
    [n |-> 1, kind |-> kind, err |-> "", rec |-> NoAttrs, data |-> data, ttl |-> <<>>]

Out(T, F, reply) == [attrs |-> T, fs |-> F, reply |-> reply, panic |-> FALSE]
\* the unwrap() of get_path on a parent that is not in the table
Panic(T, F) == [attrs |-> T, fs |-> F, reply |-> NoReply, panic |-> TRUE]

\* TracerFS::get_path: parent.real_path joined with name
get_path(T, parent, name) == Append(T[parent].real_path, name)

\* TracerFS::lookup_name: [err, rec]
lookup_name(T, F, parent, name) ==
    LET path == get_path(T, parent, name)
        metadata == Stat(F, path)
    IN  IF metadata.err = ""
        THEN [err |-> "", rec |-> FromMetadata(F, metadata.ino, path)]
        ELSE [err |-> metadata.err, rec |-> NoAttrs]

\* handle_metadata_on_removal dropping the key of the path's inode also
\* when the removal failed
handle_metadata_on_removal_also_on_failure(T, metadata, result) ==
    IF metadata.err = ""
    THEN Out(Remove(T, metadata.ino), result.fs,
             IF result.err = "" THEN ReplyOk("empty") ELSE ReplyError(result.err))
    ELSE Out(T, result.fs, ReplyError(IF result.err # "" THEN result.err ELSE metadata.err))

\* TracerFS::handle_metadata_on_removal.  metadata is the stat of the path
\* taken before the removal, result the removal's [err, fs].
handle_metadata_on_removal(T, metadata, result) ==
    IF result.err = ""
    THEN IF metadata.err = ""
         THEN Out(Remove(T, metadata.ino), result.fs, ReplyOk("empty"))
         ELSE Out(T, result.fs, ReplyError(metadata.err))
    ELSE Out(T, result.fs, ReplyError(result.err))

\* handle_metadata_on_change with the refresh done before the result is
\* looked at: a failed operation still re-reads the path and inserts.
handle_metadata_on_change_refresh_first(T, path, result, kind) ==
    LET metadata == Stat(result.fs, path)
        new_attrs == FromMetadata(result.fs, metadata.ino, path)
    IN  IF metadata.err = ""
        THEN Out(Insert(T, metadata.ino, new_attrs), result.fs,
                 IF result.err # "" THEN ReplyError(result.err)
                 ELSE IF kind = "empty" THEN ReplyOk("empty") ELSE ReplyRec(kind, new_attrs))
        ELSE Out(T, result.fs, ReplyError(IF result.err # "" THEN result.err ELSE metadata.err))

\* TracerFS::handle_metadata_on_change.  result is the real operation's
\* [err, fs]; kind the Reply variant ("entry", "attr" or "empty").
handle_metadata_on_change(T, path, result, kind) ==
    IF result.err = ""
    THEN LET metadata == Stat(result.fs, path)
             new_attrs == FromMetadata(result.fs, metadata.ino, path)
         IN  IF metadata.err = ""
             THEN Out(Insert(T, metadata.ino, new_attrs), result.fs,
                      IF kind = "empty" THEN ReplyOk("empty") ELSE ReplyRec(kind, new_attrs))
             ELSE Out(T, result.fs, ReplyError(metadata.err))
    ELSE Out(T, result.fs, ReplyError(result.err))

\* lookup replying with what it read without storing it
lookup_without_insert(T, F, parent, name) ==
    IF parent \notin DOMAIN T THEN Panic(T, F)
    ELSE LET r == lookup_name(T, F, parent, name)
         IN  IF r.err = ""
             THEN Out(T, F, ReplyRec("entry", r.rec))
             ELSE Out(T, F, ReplyError(r.err))

\* TracerFS::lookup
lookup(T, F, parent, name) ==
    IF parent \notin DOMAIN T THEN Panic(T, F)
    ELSE LET r == lookup_name(T, F, parent, name)
         IN  IF r.err = ""
             THEN Out(Insert(T, r.rec.ino, r.rec), F, ReplyRec("entry", r.rec))
             ELSE Out(T, F, ReplyError(r.err))

\* TracerFS::getattr
getattr(T, F, ino) ==
    IF ino \in DOMAIN T THEN Out(T, F, ReplyRec("attr", T[ino]))
    ELSE Out(T, F, ReplyError("ENOENT"))

\* TracerFS::mknod
mknod(T, F, parent, name, mode, now) ==
    IF parent \notin DOMAIN T THEN Panic(T, F)
    ELSE LET path == get_path(T, parent, name)
             file_type == ((mode \div 4096) % 16) * 4096
         IN  IF file_type # S_IFREG /\ file_type # S_IFLNK /\ file_type # S_IFDIR
             THEN Out(T, F, ReplyError("ENOSYS"))
             ELSE IF lookup_name(T, F, parent, name).err = ""
             THEN Out(T, F, ReplyError("EEXIST"))
             ELSE handle_metadata_on_change(T, path, FsCreateFile(F, path, now, Fuel), "entry")

\* TracerFS::mkdir
mkdir(T, F, parent, name, now) ==
    IF parent \notin DOMAIN T THEN Panic(T, F)
    ELSE LET path == get_path(T, parent, name)
         IN  handle_metadata_on_change(T, path, FsCreateDir(F, path, now), "entry")

\* TracerFS::unlink
unlink(T, F, parent, name, now) ==
    IF parent \notin DOMAIN T THEN Panic(T, F)
    ELSE LET path == get_path(T, parent, name)
             metadata == Stat(F, path)
         IN  handle_metadata_on_removal(T, metadata, FsRemoveFile(F, path, now))

\* TracerFS::rmdir
rmdir(T, F, parent, name, now) ==
    IF parent \notin DOMAIN T THEN Panic(T, F)
    ELSE LET path == get_path(T, parent, name)
             metadata == Stat(F, path)
         IN  handle_metadata_on_removal(T, metadata, FsRemoveDir(F, path, now))

\* TracerFS::symlink
symlink(T, F, parent, name, link, now) ==
    IF parent \notin DOMAIN T THEN Panic(T, F)
    ELSE LET path == get_path(T, parent, name)
         IN  handle_metadata_on_change(T, path, FsSymlink(F, link, path, now), "entry")

\* TracerFS::rename
rename(T, F, parent, name, newparent, newname, now) ==
    IF parent \notin DOMAIN T \/ newparent \notin DOMAIN T THEN Panic(T, F)
    ELSE LET path == get_path(T, parent, name)
             newpath == get_path(T, newparent, newname)
         IN  handle_metadata_on_change(T, newpath, FsRename(F, path, newpath, now), "empty")

\* TracerFS::link.  get_path(ino, "") joins the empty name: Path::join("")
\* yields the inode's real_path with a trailing separator.
link(T, F, ino, newparent, newname, now) ==
    IF ino \notin DOMAIN T \/ newparent \notin DOMAIN T THEN Panic(T, F)
    ELSE LET path == T[ino].real_path
             newpath == get_path(T, newparent, newname)
         IN  handle_metadata_on_change(T, newpath,
                                       FsHardLink(F, path, TRUE, newpath, now), "entry")

\* Option<u32> is -1 for None.  Option<u64> (size) and Option<TimeOrNow>
\* are records: [some, v] and [tag, sec] with tag "None", "Now" or "Specific".
NoSize == [some |-> FALSE, v |-> Zero64]
SomeSize(v) == [some |-> TRUE, v |-> v]
NoTime == [tag |-> "None", sec |-> 0]

\* The errno setattr() sends for a failed open, by io::ErrorKind
TruncateOpenErrno(e) ==
    CASE e = "ENOENT" -> "ENOENT"
      [] e \in {"EACCES", "EPERM"} -> "EACCES"
      [] e = "EEXIST" -> "EEXIST"
      [] e = "EINVAL" -> "EINVAL"
      [] OTHER -> "EIO"

\* setattr() without the owner check of the mode class
setattr_any_requester(T, F, req_uid, ino, mode, uid, gid, size, atime, mtime, now) ==
    IF ino \notin DOMAIN T THEN Out(T, F, ReplyError("ENOENT"))
    ELSE
    LET attrs == T[ino]
        file == FsOpenWrite(F, attrs.real_path)
    IN  IF mode # -1
        THEN handle_metadata_on_change(T, attrs.real_path,
                 FsSetPermissions(F, attrs.real_path, mode), "attr")
        ELSE IF uid # -1 \/ gid # -1
        THEN handle_metadata_on_change(T, attrs.real_path,
                 FsChown(F, attrs.real_path, uid, gid), "attr")
        ELSE IF size.some
        THEN IF file.err # ""
             THEN Out(T, F, ReplyError(TruncateOpenErrno(file.err)))
             ELSE handle_metadata_on_change(T, attrs.real_path,
                      FsSetLen(F, file.ino, size.v, now), "attr")
        ELSE IF atime.tag # "None"
        THEN handle_metadata_on_change(T, attrs.real_path,
                 FsSetFileTimes(F, attrs.real_path,
                                IF atime.tag = "Specific" THEN atime.sec ELSE now,
                                attrs.mtime[1]), "attr")
        ELSE IF mtime.tag # "None"
        THEN handle_metadata_on_change(T, attrs.real_path,
                 FsSetFileTimes(F, attrs.real_path,
                                attrs.atime[1],
                                IF mtime.tag = "Specific" THEN mtime.sec ELSE now), "attr")
        ELSE Out(T, F, NoReply)

\* TracerFS::setattr.  req_uid is req.uid(); now is time_now().0
setattr(T, F, req_uid, ino, mode, uid, gid, size, atime, mtime, now) ==
    IF ino \notin DOMAIN T THEN Out(T, F, ReplyError("ENOENT"))
    ELSE
    LET attrs == T[ino]
        file == FsOpenWrite(F, attrs.real_path)
    IN  IF mode # -1
        THEN IF req_uid # 0 /\ req_uid # attrs.uid
             THEN Out(T, F, ReplyError("EPERM"))
             ELSE handle_metadata_on_change(T, attrs.real_path,
                      FsSetPermissions(F, attrs.real_path, mode), "attr")
        ELSE IF uid # -1 \/ gid # -1
        THEN handle_metadata_on_change(T, attrs.real_path,
                 FsChown(F, attrs.real_path, uid, gid), "attr")
        ELSE IF size.some
        THEN IF file.err # ""
             THEN Out(T, F, ReplyError(TruncateOpenErrno(file.err)))
             ELSE handle_metadata_on_change(T, attrs.real_path,
                      FsSetLen(F, file.ino, size.v, now), "attr")
        ELSE IF atime.tag # "None"
        THEN handle_metadata_on_change(T, attrs.real_path,
                 FsSetFileTimes(F, attrs.real_path,
                                IF atime.tag = "Specific" THEN atime.sec ELSE now,
                                attrs.mtime[1]), "attr")
        ELSE IF mtime.tag # "None"
        THEN handle_metadata_on_change(T, attrs.real_path,
                 FsSetFileTimes(F, attrs.real_path,
                                attrs.atime[1],
                                IF mtime.tag = "Specific" THEN mtime.sec ELSE now), "attr")
        ELSE Out(T, F, NoReply)      \* the function ends without using `reply`

\* TracerFS::readlink.  The target goes out as the reply's data.
readlink(T, F, ino) ==
    IF ino \notin DOMAIN T THEN Out(T, F, ReplyError("ENOENT"))
    ELSE IF T[ino].kind # "Symlink" THEN Out(T, F, ReplyError("EINVAL"))
    ELSE LET l == LStat(F, T[ino].real_path)
         IN  IF l.err # "" \/ F.inodes[l.ino].kind # "Symlink"
             THEN Out(T, F, ReplyError("EIO"))
             ELSE Out(T, F, ReplyData("data", F.inodes[l.ino].target))

\* open(2) flags
O_ACCMODE == 3
O_RDONLY == 0
O_WRONLY == 1
O_RDWR == 2
O_TRUNC == 512

\* The flag check with the catch-all arm of the match taken as read-write
OpenFlagsErrno_any_accmode(flags) ==
    LET acc == flags % (O_ACCMODE + 1)
    IN  IF acc = O_RDONLY
        THEN IF (flags \div O_TRUNC) % 2 # 0 THEN "EACCES" ELSE ""
        ELSE ""

\* The flag check open() and opendir() share: "" when the flags pass, else
\* the errno sent.
OpenFlagsErrno(flags) ==
    LET acc == flags % (O_ACCMODE + 1)
    IN  IF acc = O_RDONLY
        THEN IF (flags \div O_TRUNC) % 2 # 0 THEN "EACCES" ELSE ""
        ELSE IF acc = O_WRONLY \/ acc = O_RDWR THEN ""
        ELSE "EINVAL"

\* TracerFS::open
open(T, F, ino, flags) ==
    LET e == OpenFlagsErrno(flags)
        write == flags % (O_ACCMODE + 1) # O_RDONLY
        file == IF write THEN FsOpenWrite(F, T[ino].real_path)
                ELSE FsOpenRead(F, T[ino].real_path)
    IN  IF e # "" THEN Out(T, F, ReplyError(e))
        ELSE IF ino \notin DOMAIN T THEN Out(T, F, ReplyError("ENOENT"))
        ELSE IF T[ino].kind # "File" THEN Out(T, F, ReplyError("EISDIR"))
        ELSE IF file.err # "" THEN Out(T, F, ReplyError("EIO"))
        ELSE Out(T, F, ReplyOk("open"))

\* TracerFS::opendir
opendir(T, F, ino, flags) ==
    LET e == OpenFlagsErrno(flags)
        write == flags % (O_ACCMODE + 1) # O_RDONLY
        file == IF write THEN FsOpenWrite(F, T[ino].real_path)
                ELSE FsOpenRead(F, T[ino].real_path)
    IN  IF e # "" THEN Out(T, F, ReplyError(e))
        ELSE IF ino \notin DOMAIN T THEN Out(T, F, ReplyError("ENOENT"))
        ELSE IF T[ino].kind # "Directory" THEN Out(T, F, ReplyError("ENOTDIR"))
        ELSE IF file.err # "" THEN Out(T, F, ReplyError("EIO"))
        ELSE Out(T, F, ReplyOk("open"))

\* TracerFS::release and TracerFS::releasedir
release(T, F, ino) == Out(T, F, ReplyOk("empty"))
releasedir(T, F, ino) == Out(T, F, ReplyOk("empty"))

\* The length read() reads: min(size, file_size.saturating_sub(offset as u64) as u32)
\* for file_size: u64, offset: i64, size: u32
read_size(file_size, offset, size) ==
    min(size, AsU32(saturating_sub(file_size, I64AsU64(offset))))

\* TracerFS::read.  size is a u32 small enough for the reply to be built.
read(T, F, ino, offset, size) ==
    IF ino \notin DOMAIN T THEN Out(T, F, ReplyError("ENOENT"))
    ELSE IF T[ino].kind # "File" THEN Out(T, F, ReplyError("EISDIR"))
    ELSE LET file == FsOpenRead(F, T[ino].real_path)
             n == Nat64(read_size(F.inodes[file.ino].len, offset, size))
         IN  IF file.err # "" THEN Out(T, F, ReplyError("ENOENT"))
             ELSE IF n > 0 /\ F.inodes[file.ino].kind = "Directory"
             THEN Out(T, F, ReplyError("EISDIR"))      \* pread(2) on a directory
             ELSE Out(T, F, ReplyData("data", FsReadExactAt(F, file.ino, I64AsU64(offset), n)))

\* TracerFS::write
write(T, F, ino, offset, data, now) ==
    IF ino \notin DOMAIN T THEN Out(T, F, ReplyError("ENOENT"))
    ELSE LET attrs == T[ino]
             file == FsOpenWrite(F, attrs.real_path)
             w == FsWriteAt(F, file.ino, offset, data, now)
         IN  IF file.err # "" THEN Out(T, F, ReplyError(file.err))
             ELSE IF w.err # "" THEN Out(T, F, ReplyError(w.err))
             ELSE Out(Insert(T, ino, FromMetadata(w.fs, file.ino, attrs.real_path)), w.fs,
                      ReplyData("written", <<Len(data)>>))

\* TracerFS::statfs.  The statistics themselves are not modelled.
statfs(T, F, ino) ==
    IF ino \notin DOMAIN T THEN Out(T, F, ReplyError("ENOENT"))
    ELSE Out(T, F, ReplyOk("statfs"))

\* TracerFS::fallocate and TracerFS::copy_file_range: todo!() panics
fallocate(T, F, ino) == Panic(T, F)
copy_file_range(T, F, ino_in, ino_out) == Panic(T, F)

(***************************************************************************)
(* TracerFS::readdir.  The reply buffer accepts `cap` entries: the add()   *)
(* of an entry that does not fit returns true and leaves it out.  The      *)
(* reply's data is the sequence of accepted entries, each                  *)
(* [ino, next, kind, name] with next the offset passed to add().           *)
(***************************************************************************)
\* the offset readdir() attaches to the entry at 0-based index i
next_offset(offset, i) == offset + i + 1

readdir(T, F, ino, offset, cap) ==
    IF ino \notin DOMAIN T THEN Out(T, F, ReplyError("ENOENT"))
    ELSE IF T[ino].kind # "Directory" THEN Out(T, F, ReplyError("ENOTDIR"))
    ELSE LET d == Stat(F, T[ino].real_path)
             entries == FsReadDir(F, Resolve(F, T[ino].real_path, TRUE).path)
             wanted == SelectSeq([i \in 1..Len(entries) |-> i - 1], LAMBDA i : i >= offset)
             taken == SubSeq(wanted, 1, IF cap < Len(wanted) THEN cap ELSE Len(wanted))
         IN  IF d.err # "" \/ F.inodes[d.ino].kind # "Directory"
             THEN Out(T, F, ReplyError("EIO"))
             ELSE Out(T, F, ReplyData("directory",
                      [k \in 1..Len(taken) |->
                          [ino |-> entries[taken[k] + 1].ino,
                           next |-> next_offset(offset, taken[k]),
                           kind |-> entries[taken[k] + 1].kind,
                           name |-> entries[taken[k] + 1].name]]))

(***************************************************************************)
(* check_access and TracerFS::access.  file_mode is a u32 given as two     *)
(* 16-bit limbs <<lo, hi>>; `file_mode as i32` is its two's-complement      *)
(* value.  On an i32, >> is the arithmetic shift (floor division) and & is *)
(* taken bit by bit on the two's-complement pattern.                       *)
(***************************************************************************)
F_OK == 0
X_OK == 1
W_OK == 2
R_OK == 4

U32(n) == <<n % Base, n \div Base>>
AsI32(m) == IF m[2] >= Base \div 2 THEN (m[2] - Base) * Base + m[1] ELSE m[2] * Base + m[1]
Shr(x, k) == x \div (2 ^ k)

\* x & y for an i32 x and 0 <= y
RECURSIVE BitAnd(_, _)
BitAnd(x, y) ==
    IF y = 0 THEN 0 ELSE (x % 2) * (y % 2) + 2 * BitAnd(x \div 2, y \div 2)

\* check_access with the root branch granting X_OK whatever the mode
check_access_root_any(file_uid, file_gid, file_mode, uid, gid, access_mask) ==
    LET mode == AsI32(file_mode)
        Clear(mask, bits) == mask - BitAnd(bits, mask)
    IN  IF access_mask = F_OK THEN TRUE
        ELSE IF uid = 0 THEN TRUE
        ELSE IF uid = file_uid THEN Clear(access_mask, Shr(mode, 6)) = 0
        ELSE IF gid = file_gid THEN Clear(access_mask, Shr(mode, 3)) = 0
        ELSE Clear(access_mask, mode) = 0

\* check_access with the group test made before the owner test
check_access_group_first(file_uid, file_gid, file_mode, uid, gid, access_mask) ==
    LET mode == AsI32(file_mode)
        Clear(mask, bits) == mask - BitAnd(bits, mask)
        root == Clear(Clear(Clear(BitAnd(access_mask, X_OK), Shr(mode, 6)),
                            Shr(mode, 3)), mode)
    IN  IF access_mask = F_OK THEN TRUE
        ELSE IF uid = 0 THEN root = 0
        ELSE IF gid = file_gid THEN Clear(access_mask, Shr(mode, 3)) = 0
        ELSE IF uid = file_uid THEN Clear(access_mask, Shr(mode, 6)) = 0
        ELSE Clear(access_mask, mode) = 0

\* check_access.  Clear(mask, bits) is `access_mask -= access_mask & bits`.
check_access(file_uid, file_gid, file_mode, uid, gid, access_mask) ==
    LET mode == AsI32(file_mode)
        Clear(mask, bits) == mask - BitAnd(bits, mask)
        root == Clear(Clear(Clear(BitAnd(access_mask, X_OK), Shr(mode, 6)),
                            Shr(mode, 3)), mode)
    IN  IF access_mask = F_OK THEN TRUE
        ELSE IF uid = 0 THEN root = 0
        ELSE IF uid = file_uid THEN Clear(access_mask, Shr(mode, 6)) = 0
        ELSE IF gid = file_gid THEN Clear(access_mask, Shr(mode, 3)) = 0
        ELSE Clear(access_mask, mode) = 0

\* TracerFS::access with a denial replied as success
access_never_denies(T, F, ino, req_uid, req_gid, mask) ==
    IF ino \in DOMAIN T THEN Out(T, F, ReplyOk("empty"))
    ELSE Out(T, F, ReplyError("ENOENT"))

\* TracerFS::access
access(T, F, ino, req_uid, req_gid, mask) ==
    IF ino \in DOMAIN T
    THEN IF check_access(T[ino].uid, T[ino].gid, U32(T[ino].mode), req_uid, req_gid, mask)
         THEN Out(T, F, ReplyOk("empty"))
         ELSE Out(T, F, ReplyError("EACCES"))
    ELSE Out(T, F, ReplyError("ENOENT"))

(***************************************************************************)
(* State.                                                                  *)
(***************************************************************************)
VARIABLES
    phase,      \* "new" after TracerFS::new, "mounted" after init(), "crashed" after a panic
    dents,      \* the real filesystem: directory entries
    inodes,     \*                      inodes
    nextIno,    \*                      next inode number
    attrs,      \* TracerFS.attrs
    given,      \* inode numbers sent to the kernel in entry replies, and the root's
    listed,     \* inode numbers sent to the kernel in ReadDirectory entries
    last,       \* the last handler call: its arguments and what it sent
    nops,       \* handler calls taken as steps of the behaviour
    session,    \* a ReadDirectory listing in progress (SpecReadDir)
    calc,       \* one evaluation of read()'s length computation (SpecReadSize)
                \* or of check_access (SpecAccess)
    life        \* main(), its threads and channels, the mount and the sentinel file

vars == <<phase, dents, inodes, nextIno, attrs, given, listed, last, nops, session, calc,
          life>>

FS == [dents |-> dents, inodes |-> inodes, next |-> nextIno]

(***************************************************************************)
(* The mirrored trees a mount may start from, built by the operations of   *)
(* the real filesystem at time 0 and owned by uid 1000.                    *)
(***************************************************************************)
EmptyFS ==
    [dents |-> [p \in Paths |-> IF p = <<>> THEN RootRealIno ELSE 0],
     inodes |-> [i \in RealInos |->
                    IF i = RootRealIno THEN NewNode("Directory", 0, <<>>) ELSE FreeNode],
     next |-> RootRealIno + 1]

OwnedBy(F, uid) ==
    [F EXCEPT !.inodes = [i \in RealInos |->
        IF F.inodes[i].kind = "Free" THEN FreeNode
        ELSE [F.inodes[i] EXCEPT !.uid = uid, !.gid = uid]]]

\* a/ (directory), a/a (file "hi"), b -> a (symlink to the directory)
TreeDir ==
    LET f1 == FsCreateDir(EmptyFS, <<"a">>, 0).fs
        f2 == FsCreateFile(f1, <<"a", "a">>, 0, Fuel).fs
        f3 == FsWriteAt(f2, f2.dents[<<"a", "a">>], I64(0), <<1, 2>>, 0).fs
    IN  FsSymlink(f3, <<"a">>, <<"b">>, 0).fs

\* a (file), b (a second name of the same inode), c -> a (symlink to the file)
TreeLinks ==
    LET f1 == FsCreateFile(EmptyFS, <<"a">>, 0, Fuel).fs
        f2 == FsHardLink(f1, <<"a">>, FALSE, <<"b">>, 0).fs
    IN  FsSymlink(f2, <<"a">>, <<"c">>, 0).fs

\* a, b (files), c (a sparse file of 2^32 + 1 bytes)
TreeFiles ==
    LET f1 == FsCreateFile(EmptyFS, <<"a">>, 0, Fuel).fs
        f2 == FsCreateFile(f1, <<"b">>, 0, Fuel).fs
        f3 == FsCreateFile(f2, <<"c">>, 0, Fuel).fs
    IN  FsSetLen(f3, f3.dents[<<"c">>], Add64(Two32, U64(1)), 0).fs

InitTrees == {OwnedBy(EmptyFS, 1000), OwnedBy(TreeDir, 1000),
              OwnedBy(TreeLinks, 1000), OwnedBy(TreeFiles, 1000)}

(***************************************************************************)
(* The record of a handler call.                                           *)
(***************************************************************************)
NoArgs ==
    [ino |-> 0, name |-> "", newparent |-> 0, newname |-> "", mode |-> -1, link |-> <<>>,
     offset |-> I64(0), size |-> Zero64, data |-> <<>>, flags |-> 0, cap |-> 0,
     req_uid |-> 0, uid |-> -1, gid |-> -1, newsize |-> NoSize, atime |-> NoTime,
     mtime |-> NoTime, req_gid |-> 0, mask |-> 0]

Call(op, args, reply, panic) == [op |-> op, args |-> args, reply |-> reply, panic |-> panic]

NoCalc == [file_size |-> Zero64, offset |-> I64(0), size |-> Zero64, out |-> Zero64,
           done |-> FALSE]
NoSession == [ino |-> 0, cap |-> 0, offset |-> 0, seen |-> <<>>, calls |-> 0, done |-> FALSE]

\* A channel of (): messages sent, queued and received, the Senders alive
\* and whether the Receiver is alive.
NewChannel(senders) ==
    [sent |-> 0, queued |-> 0, rcvd |-> 0, senders |-> senders, receiver |-> TRUE]

\* main() just before fuser::spawn_mount2: the listener thread is blocked in
\* init_recv.recv(), the SIGINT handler is installed, nothing is mounted.
\*   main      mount, recv, remove_file, drop_guard, return, exited
\*   fuse      the session thread: none, start, walking, serving, ended, panicked
\*   walk      entries init() has still to insert
\*   listener  recv, create, done, panicked
\*   init_chan (init_send, init_recv); drop_chan (drop_send and its clones, drop_recv)
\*   created, removed   File::create and fs::remove_file calls made on the sentinel
\*   released  drop(guard) has run
NoLife ==
    [main |-> "mount", fuse |-> "none", walk |-> <<>>, listener |-> "recv",
     init_chan |-> NewChannel(1), drop_chan |-> NewChannel(3),
     mounted |-> FALSE, sentinel |-> FALSE, created |-> 0, sigints |-> 0,
     ctrlc_panicked |-> FALSE, removed |-> 0, released |-> FALSE]

Init ==
    /\ phase = "new"
    /\ \E F \in InitTrees : dents = F.dents /\ inodes = F.inodes /\ nextIno = F.next
    /\ attrs = <<>>
    /\ given = {FUSE_ROOT_ID}
    /\ listed = {}
    /\ last = Call("new", NoArgs, NoReply, FALSE)
    /\ nops = 0
    /\ session = NoSession
    /\ calc = NoCalc
    /\ life = NoLife

(***************************************************************************)
(* TracerFS::init.  WalkDir yields the root, then every entry below it     *)
(* depth first without following symlinks; each is inserted under its      *)
(* lstat inode number, the root under FUSE_ROOT_ID.                        *)
(***************************************************************************)
RECURSIVE WalkDir(_, _, _)
WalkDir(F, p, names) ==
    IF names = <<>> THEN <<>>
    ELSE LET q == Append(p, Head(names))
         IN  (IF ~Exists(F, q) THEN <<>>
              ELSE IF NodeAt(F, q).kind = "Directory" THEN <<q>> \o WalkDir(F, q, NameSeq)
              ELSE <<q>>)
             \o WalkDir(F, p, Tail(names))

RECURSIVE InsertAll(_, _, _)
InsertAll(T, F, entries) ==
    IF entries = <<>> THEN T
    ELSE LET real_path == Head(entries)
             inode == IF real_path # <<>> THEN F.dents[real_path] ELSE FUSE_ROOT_ID
         IN  InsertAll(Insert(T, inode, FromMetadata(F, F.dents[real_path], real_path)),
                       F, Tail(entries))

init(T, F) == InsertAll(T, F, <<(<<>>)>> \o WalkDir(F, <<>>, NameSeq))

FsInit ==
    /\ phase = "new"
    /\ phase' = "mounted"
    /\ attrs' = init(attrs, FS)
    /\ last' = Call("init", NoArgs, NoReply, FALSE)
    /\ UNCHANGED <<dents, inodes, nextIno, given, listed, nops, session, calc, life>>

(***************************************************************************)
(* Requests.  The kernel names only inodes it was given in an entry reply  *)
(* (and the root); the arguments are drawn from small sets.                *)
(***************************************************************************)
MaxNow == 1         \* latest clock reading (seconds) at an operation
Nows == 1..MaxNow
Modes == {S_IFREG + 420, S_IFDIR + 493, S_IFLNK + 511, S_IFIFO + 420}
Links == {<<"a">>, <<"c">>}                     \* symlink targets
Offsets == {I64(0), I64(1), I64(-1)}
Sizes == {U64(0), U64(2), U64(4)}
Datas == {<<>>, <<1, 2>>}
Flags == {O_RDONLY, O_WRONLY, O_RDWR, O_ACCMODE, O_RDONLY + O_TRUNC}
SetattrCalls ==
    {[NoArgs EXCEPT !.req_uid = 1001, !.mode = 384],                        \* chmod 0600
     [NoArgs EXCEPT !.req_uid = 1000, !.mode = 384, !.newsize = SomeSize(U64(1))],
     [NoArgs EXCEPT !.uid = 1001],
     [NoArgs EXCEPT !.newsize = SomeSize(U64(1))],
     [NoArgs EXCEPT !.newsize = SomeSize(Add64(Two32, U64(1)))],
     [NoArgs EXCEPT !.atime = [tag |-> "Specific", sec |-> 2]],
     [NoArgs EXCEPT !.mtime = [tag |-> "Now", sec |-> 0]],
     [NoArgs EXCEPT !.req_uid = 1001, !.mode = 384, !.uid = 1001, !.gid = 1001,
                    !.newsize = SomeSize(U64(1)),
                    !.atime = [tag |-> "Specific", sec |-> 2],
                    !.mtime = [tag |-> "Now", sec |-> 0]],
     NoArgs}

\* access() calls: uid 0, the owner of the mirrored tree, and a stranger
AccessCalls ==
    {[NoArgs EXCEPT !.req_uid = u, !.req_gid = 1000, !.mask = k] :
        u \in {0, 1000, 1001}, k \in {F_OK, X_OK, W_OK, R_OK + X_OK}}

\* One handler call with outcome H.
Step(op, args, H) ==
    LET h == H
    IN  /\ phase = "mounted"
        /\ nops < MaxOps
        /\ h.reply.err # "BOUND"
        /\ attrs' = h.attrs
        /\ dents' = h.fs.dents
        /\ inodes' = h.fs.inodes
        /\ nextIno' = h.fs.next
        /\ phase' = IF h.panic THEN "crashed" ELSE "mounted"
        /\ last' = Call(op, args, h.reply, h.panic)
        /\ nops' = nops + 1
        /\ given' = IF h.reply.kind = "entry" THEN given \cup {h.reply.rec.ino} ELSE given
        /\ listed' = IF h.reply.kind = "directory"
                     THEN listed \cup {h.reply.data[i].ino : i \in 1..Len(h.reply.data)}
                     ELSE listed
        /\ UNCHANGED <<session, calc, life>>

Lookup ==
    \E parent \in given, name \in Names :
        Step("lookup", [NoArgs EXCEPT !.ino = parent, !.name = name],
             lookup(attrs, FS, parent, name))

Forget ==
    \E ino \in given :
        /\ phase = "mounted"
        /\ nops < MaxOps
        /\ last' = Call("forget", [NoArgs EXCEPT !.ino = ino], NoReply, FALSE)
        /\ nops' = nops + 1
        /\ UNCHANGED <<phase, dents, inodes, nextIno, attrs, given, listed, session, calc,
                       life>>

GetAttr ==
    \E ino \in given :
        Step("getattr", [NoArgs EXCEPT !.ino = ino], getattr(attrs, FS, ino))

SetAttr ==
    \E ino \in given, c \in SetattrCalls, now \in Nows :
        Step("setattr", [c EXCEPT !.ino = ino],
             setattr(attrs, FS, c.req_uid, ino, c.mode, c.uid, c.gid, c.newsize,
                     c.atime, c.mtime, now))

ReadLink ==
    \E ino \in given :
        Step("readlink", [NoArgs EXCEPT !.ino = ino], readlink(attrs, FS, ino))

MkNod ==
    \E parent \in given, name \in Names, mode \in Modes, now \in Nows :
        Step("mknod", [NoArgs EXCEPT !.ino = parent, !.name = name, !.mode = mode],
             mknod(attrs, FS, parent, name, mode, now))

MkDir ==
    \E parent \in given, name \in Names, now \in Nows :
        Step("mkdir", [NoArgs EXCEPT !.ino = parent, !.name = name, !.mode = S_IFDIR + 493],
             mkdir(attrs, FS, parent, name, now))

Unlink ==
    \E parent \in given, name \in Names, now \in Nows :
        Step("unlink", [NoArgs EXCEPT !.ino = parent, !.name = name],
             unlink(attrs, FS, parent, name, now))

RmDir ==
    \E parent \in given, name \in Names, now \in Nows :
        Step("rmdir", [NoArgs EXCEPT !.ino = parent, !.name = name],
             rmdir(attrs, FS, parent, name, now))

Symlink ==
    \E parent \in given, name \in Names, l \in Links, now \in Nows :
        Step("symlink", [NoArgs EXCEPT !.ino = parent, !.name = name, !.link = l],
             symlink(attrs, FS, parent, name, l, now))

Rename ==
    \E parent \in given, name \in Names, newparent \in given, newname \in Names,
       now \in Nows :
        Step("rename", [NoArgs EXCEPT !.ino = parent, !.name = name,
                                      !.newparent = newparent, !.newname = newname],
             rename(attrs, FS, parent, name, newparent, newname, now))

Link ==
    \E ino \in given, newparent \in given, newname \in Names, now \in Nows :
        Step("link", [NoArgs EXCEPT !.ino = ino, !.newparent = newparent,
                                    !.newname = newname],
             link(attrs, FS, ino, newparent, newname, now))

Open ==
    \E ino \in given, flags \in Flags :
        Step("open", [NoArgs EXCEPT !.ino = ino, !.flags = flags],
             open(attrs, FS, ino, flags))

Read ==
    \E ino \in given, offset \in Offsets, size \in Sizes :
        Step("read", [NoArgs EXCEPT !.ino = ino, !.offset = offset, !.size = size],
             read(attrs, FS, ino, offset, size))

Write ==
    \E ino \in given, offset \in Offsets, data \in Datas, now \in Nows :
        Step("write", [NoArgs EXCEPT !.ino = ino, !.offset = offset, !.data = data],
             write(attrs, FS, ino, offset, data, now))

Release ==
    \E ino \in given :
        Step("release", [NoArgs EXCEPT !.ino = ino], release(attrs, FS, ino))

OpenDir ==
    \E ino \in given, flags \in Flags :
        Step("opendir", [NoArgs EXCEPT !.ino = ino, !.flags = flags],
             opendir(attrs, FS, ino, flags))

ReadDir ==
    \E ino \in given, offset \in 0..1, cap \in 1..MaxCap :
        Step("readdir", [NoArgs EXCEPT !.ino = ino, !.offset = I64(offset), !.cap = cap],
             readdir(attrs, FS, ino, offset, cap))

ReleaseDir ==
    \E ino \in given :
        Step("releasedir", [NoArgs EXCEPT !.ino = ino], releasedir(attrs, FS, ino))

StatFs ==
    \E ino \in given :
        Step("statfs", [NoArgs EXCEPT !.ino = ino], statfs(attrs, FS, ino))

Access ==
    \E ino \in given, c \in AccessCalls :
        Step("access", [c EXCEPT !.ino = ino],
             access(attrs, FS, ino, c.req_uid, c.req_gid, c.mask))

Fallocate ==
    \E ino \in given :
        Step("fallocate", [NoArgs EXCEPT !.ino = ino], fallocate(attrs, FS, ino))

CopyFileRange ==
    \E ino_in \in given, ino_out \in given :
        Step("copy_file_range", [NoArgs EXCEPT !.ino = ino_in, !.newparent = ino_out],
             copy_file_range(attrs, FS, ino_in, ino_out))

Next ==
    \/ FsInit
    \/ Lookup
    \/ Forget
    \/ GetAttr
    \/ SetAttr
    \/ ReadLink
    \/ MkNod
    \/ MkDir
    \/ Unlink
    \/ RmDir
    \/ Symlink
    \/ Rename
    \/ Link
    \/ Open
    \/ Read
    \/ Write
    \/ Release
    \/ OpenDir
    \/ ReadDir
    \/ ReleaseDir
    \/ StatFs
    \/ Access
    \/ Fallocate
    \/ CopyFileRange

Spec == Init /\ [][Next]_vars

(***************************************************************************)
(* SpecKnown: the mount once init() has returned and the kernel has looked *)
(* up one name of the root, so that it holds the inode number of an entry  *)
(* besides the root's.  The requests are those of Spec.                    *)
(***************************************************************************)
InitKnown ==
    \E F \in InitTrees, name \in Names :
        LET h == lookup(init(<<>>, F), F, FUSE_ROOT_ID, name)
        IN  /\ h.reply.kind = "entry"
            /\ phase = "mounted"
            /\ dents = F.dents /\ inodes = F.inodes /\ nextIno = F.next
            /\ attrs = h.attrs
            /\ given = {FUSE_ROOT_ID, h.reply.rec.ino}
            /\ listed = {}
            /\ last = Call("lookup", [NoArgs EXCEPT !.ino = FUSE_ROOT_ID, !.name = name],
                           h.reply, FALSE)
            /\ nops = 0
            /\ session = NoSession
            /\ calc = NoCalc
            /\ life = NoLife

NextKnown ==
    \/ Lookup
    \/ Forget
    \/ GetAttr
    \/ SetAttr
    \/ ReadLink
    \/ MkNod
    \/ MkDir
    \/ Unlink
    \/ RmDir
    \/ Symlink
    \/ Rename
    \/ Link
    \/ Open
    \/ Read
    \/ Write
    \/ Release
    \/ OpenDir
    \/ ReadDir
    \/ ReleaseDir
    \/ StatFs
    \/ Access
    \/ Fallocate
    \/ CopyFileRange

SpecKnown == InitKnown /\ [][NextKnown]_vars

(***************************************************************************)
(* SpecReadDir: one listing of one directory.  The mount is up over a root *)
(* that holds any choice of the names, each a file, a directory or a       *)
(* symlink; the kernel calls ReadDirectory from offset 0 and resumes at    *)
(* the offset of the last entry it got, until a call returns no entry.     *)
(***************************************************************************)
EntryKinds == {"None", "File", "Directory", "Symlink"}

RECURSIVE Populate(_, _, _)
Populate(F, names, kindOf) ==
    IF names = <<>> THEN F
    ELSE LET n == Head(names)
             F1 == CASE kindOf[n] = "File" -> FsCreateFile(F, <<n>>, 0, Fuel).fs
                     [] kindOf[n] = "Directory" -> FsCreateDir(F, <<n>>, 0).fs
                     [] kindOf[n] = "Symlink" -> FsSymlink(F, <<"a">>, <<n>>, 0).fs
                     [] OTHER -> F
         IN  Populate(F1, Tail(names), kindOf)

InitReadDir ==
    /\ phase = "mounted"
    /\ \E kindOf \in [Names -> EntryKinds] :
          LET F == Populate(EmptyFS, NameSeq, kindOf)
          IN  /\ dents = F.dents
              /\ inodes = F.inodes
              /\ nextIno = F.next
              /\ attrs = init(<<>>, F)
    /\ given = {FUSE_ROOT_ID}
    /\ listed = {}
    /\ last = Call("init", NoArgs, NoReply, FALSE)
    /\ nops = 0
    /\ \E cap \in 1..MaxCap : session = [NoSession EXCEPT !.ino = FUSE_ROOT_ID, !.cap = cap]
    /\ calc = NoCalc
    /\ life = NoLife

ReadDirCall ==
    LET h == readdir(attrs, FS, session.ino, session.offset, session.cap)
        got == h.reply.data
    IN  /\ ~session.done
        /\ session.calls < MaxCalls
        /\ h.reply.kind = "directory"
        /\ session' = [session EXCEPT
                          !.calls = @ + 1,
                          !.done = got = <<>>,
                          !.offset = IF got = <<>> THEN @ ELSE got[Len(got)].next,
                          !.seen = @ \o [i \in 1..Len(got) |-> got[i].name]]
        /\ last' = Call("readdir", [NoArgs EXCEPT !.ino = session.ino,
                                                  !.offset = I64(session.offset),
                                                  !.cap = session.cap], h.reply, FALSE)
        /\ listed' = listed \cup {got[i].ino : i \in 1..Len(got)}
        /\ UNCHANGED <<phase, dents, inodes, nextIno, attrs, given, nops, calc, life>>

SpecReadDir == InitReadDir /\ [][ReadDirCall]_vars

(***************************************************************************)
(* SpecReadSize: read()'s length computation on its own, for file sizes,   *)
(* offsets and sizes across the 64-bit and 32-bit ranges.                  *)
(***************************************************************************)
Max32 == <<Base - 1, Base - 1, 0, 0>>            \* u32::MAX
I64Max == <<Base - 1, Base - 1, Base - 1, (Base \div 2) - 1>>
FileSizes == {Zero64, U64(5), U64(10), Max32, Two32, Add64(Two32, U64(5)), I64Max}
ReadOffsets == {I64(0), I64(3), I64(-1), [neg |-> FALSE, mag |-> Two32],
                [neg |-> FALSE, mag |-> I64Max]}
ReadSizes == {U64(0), U64(4), U64(10), Max32}

InitReadSize ==
    /\ phase = "mounted"
    /\ dents = EmptyFS.dents
    /\ inodes = EmptyFS.inodes
    /\ nextIno = EmptyFS.next
    /\ attrs = init(<<>>, EmptyFS)
    /\ given = {FUSE_ROOT_ID}
    /\ listed = {}
    /\ last = Call("init", NoArgs, NoReply, FALSE)
    /\ nops = 0
    /\ session = NoSession
    /\ \E L \in FileSizes, o \in ReadOffsets, n \in ReadSizes :
          calc = [NoCalc EXCEPT !.file_size = L, !.offset = o, !.size = n]
    /\ life = NoLife

ReadSize ==
    /\ ~calc.done
    /\ calc' = [calc EXCEPT !.out = read_size(calc.file_size, calc.offset, calc.size),
                            !.done = TRUE]
    /\ UNCHANGED <<phase, dents, inodes, nextIno, attrs, given, listed, last, nops, session,
                   life>>

SpecReadSize == InitReadSize /\ [][ReadSize]_vars

(***************************************************************************)
(* SpecAccess: check_access on its own, for every permission triple under  *)
(* several settings of the higher mode bits, every mask over R_OK, W_OK,   *)
(* X_OK, and requesters that are root, the owner, in the group, or neither.*)
(***************************************************************************)
S_ISUID == 2048
FileOwner == 1000
Perms == 0..511
AccessModes ==
    {<<p + h, 0>> : p \in Perms, h \in {0, S_IFREG + S_ISUID}}
        \cup {<<p, Base \div 2>> : p \in Perms}
AccessMasks == 0..(R_OK + W_OK + X_OK)
Requesters == {0, FileOwner, FileOwner + 1}

NoCheck == [file_uid |-> FileOwner, file_gid |-> FileOwner, file_mode |-> <<0, 0>>,
            uid |-> 0, gid |-> 0, mask |-> 0, out |-> FALSE, done |-> FALSE]

InitAccess ==
    /\ phase = "mounted"
    /\ dents = EmptyFS.dents
    /\ inodes = EmptyFS.inodes
    /\ nextIno = EmptyFS.next
    /\ attrs = init(<<>>, EmptyFS)
    /\ given = {FUSE_ROOT_ID}
    /\ listed = {}
    /\ last = Call("init", NoArgs, NoReply, FALSE)
    /\ nops = 0
    /\ session = NoSession
    /\ \E m \in AccessModes, u \in Requesters, g \in {FileOwner, FileOwner + 1},
          k \in AccessMasks :
          calc = [NoCheck EXCEPT !.file_mode = m, !.uid = u, !.gid = g, !.mask = k]
    /\ life = NoLife

CheckAccess ==
    /\ ~calc.done
    /\ calc' = [calc EXCEPT !.out = check_access(calc.file_uid, calc.file_gid,
                                                 calc.file_mode, calc.uid, calc.gid,
                                                 calc.mask),
                            !.done = TRUE]
    /\ UNCHANGED <<phase, dents, inodes, nextIno, attrs, given, listed, last, nops, session,
                   life>>

SpecAccess == InitAccess /\ [][CheckAccess]_vars

(***************************************************************************)
(* SpecLife: main(), the ready listener thread, the SIGINT handler and the *)
(* fuser session thread, which calls init() once after the mount and       *)
(* destroy() once the mount has gone.  init() is taken one inserted entry  *)
(* at a time.  No request is served: the table changes by init() only.     *)
(* When main() returns the process ends and no thread runs any more.       *)
(***************************************************************************)
MaxSigints == 2     \* SIGINTs delivered in one behaviour

\* Sender::send: queues a message; with the Receiver dropped it is an error
Send(ch) == [ch EXCEPT !.sent = @ + 1, !.queued = @ + 1]
\* Receiver::recv taking a queued message
Recv(ch) == [ch EXCEPT !.queued = @ - 1, !.rcvd = @ + 1]

\* a (file), b (a named pipe: a type as_file_kind does not implement)
TreeFifo ==
    LET f1 == FsCreateFile(EmptyFS, <<"a">>, 0, Fuel).fs
        f2 == FsCreateFile(f1, <<"b">>, 0, Fuel).fs
    IN  [f2 EXCEPT !.inodes[f2.dents[<<"b">>]].mode = S_IFIFO + 420]

Running == life.main # "exited"

\* tests::run_test once its thread runs session.run(): the file system is
\* mounted by Session::new, no listener thread and no SIGINT handler exist,
\* and init and destroy are clones of one Sender whose Receiver was dropped
\* on creation (let (send, _) = channel()).  main is the test's own thread.
TestLife ==
    [NoLife EXCEPT !.main = "test", !.fuse = "start", !.listener = "none", !.mounted = TRUE,
                   !.init_chan = [NewChannel(3) EXCEPT !.receiver = FALSE],
                   !.drop_chan = [NewChannel(3) EXCEPT !.receiver = FALSE]]

InitLife ==
    /\ phase = "new"
    /\ \E F \in InitTrees \cup {OwnedBy(TreeFifo, 1000)} :
          dents = F.dents /\ inodes = F.inodes /\ nextIno = F.next
    /\ attrs = <<>>
    /\ given = {FUSE_ROOT_ID}
    /\ listed = {}
    /\ last = Call("new", NoArgs, NoReply, FALSE)
    /\ nops = 0
    /\ session = NoSession
    /\ calc = NoCalc
    /\ life \in {NoLife, TestLife}

LifeStep(l) ==
    /\ life' = l
    /\ UNCHANGED <<phase, dents, inodes, nextIno, attrs, given, listed, last, nops, session,
                   calc>>

\* fuser::spawn_mount2: mounts and starts the session thread
MainMount ==
    /\ life.main = "mount"
    /\ LifeStep([life EXCEPT !.main = "recv", !.mounted = TRUE, !.fuse = "start"])

\* init() with the ready signal sent on entry as well
InitStart_sends_ready ==
    /\ Running
    /\ life.fuse = "start"
    /\ LifeStep([life EXCEPT !.fuse = "walking",
                             !.walk = <<(<<>>)>> \o WalkDir(FS, <<>>, NameSeq),
                             !.init_chan = Send(@)])

\* init() entered: WalkDir::new(&self.root)
InitStart ==
    /\ Running
    /\ life.fuse = "start"
    /\ LifeStep([life EXCEPT !.fuse = "walking",
                             !.walk = <<(<<>>)>> \o WalkDir(FS, <<>>, NameSeq)])

\* One turn of init()'s loop.  The conversion of the metadata panics in
\* as_file_kind for a type other than file, symlink or directory; the
\* unwinding drops the TracerFS and with it init_send.
InitInsert ==
    /\ Running
    /\ life.fuse = "walking"
    /\ life.walk # <<>>
    /\ LET entry == Head(life.walk)
       IN  IF as_file_kind(inodes[dents[entry]].mode) = "Unimplemented"
           THEN /\ attrs' = attrs
                /\ life' = [life EXCEPT !.fuse = "panicked", !.init_chan.senders = 0]
           ELSE /\ attrs' = InsertAll(attrs, FS, <<entry>>)
                /\ life' = [life EXCEPT !.walk = Tail(@)]
    /\ UNCHANGED <<phase, dents, inodes, nextIno, given, listed, last, nops, session, calc>>

\* init() ignoring the result of the send and returning Ok
InitSend_ignores_error ==
    /\ Running
    /\ life.fuse = "walking"
    /\ life.walk = <<>>
    /\ life' = [life EXCEPT !.init_chan = IF @.receiver THEN Send(@) ELSE @,
                            !.fuse = "serving"]
    /\ phase' = "mounted"
    /\ last' = Call("init", NoArgs, NoReply, FALSE)
    /\ UNCHANGED <<dents, inodes, nextIno, attrs, given, listed, nops, session, calc>>

\* self.init.send(()).unwrap(); Ok(())
InitSend ==
    /\ Running
    /\ life.fuse = "walking"
    /\ life.walk = <<>>
    /\ IF life.init_chan.receiver
       THEN /\ life' = [life EXCEPT !.init_chan = Send(@), !.fuse = "serving"]
            /\ phase' = "mounted"
            /\ last' = Call("init", NoArgs, NoReply, FALSE)
       ELSE /\ life' = [life EXCEPT !.fuse = "panicked", !.init_chan.senders = 0]
            /\ UNCHANGED <<phase, last>>
    /\ UNCHANGED <<dents, inodes, nextIno, attrs, given, listed, nops, session, calc>>

\* the listener going on to File::create without a message
ListenerRecv_without_message ==
    /\ Running
    /\ life.listener = "recv"
    /\ LifeStep([life EXCEPT !.listener = "create"])

\* init_recv.recv().unwrap() returning a message
ListenerRecv ==
    /\ Running
    /\ life.listener = "recv"
    /\ life.init_chan.queued > 0
    /\ LifeStep([life EXCEPT !.init_chan = Recv(@), !.listener = "create"])

\* init_recv.recv() failing because init_send is gone: unwrap() panics
ListenerRecvErr ==
    /\ Running
    /\ life.listener = "recv"
    /\ life.init_chan.queued = 0
    /\ life.init_chan.senders = 0
    /\ LifeStep([life EXCEPT !.listener = "panicked", !.init_chan.receiver = FALSE])

\* File::create(init_file_path); the closure ends and drops init_recv
ListenerCreate ==
    /\ Running
    /\ life.listener = "create"
    /\ LifeStep([life EXCEPT !.listener = "done", !.sentinel = TRUE, !.created = @ + 1,
                             !.init_chan.receiver = FALSE])

\* SIGINT: the handler runs ctrlc.send(()).unwrap().  A panic ends the
\* handler's thread, so later SIGINTs run nothing.
Sigint ==
    /\ Running
    /\ life.main # "test"
    /\ life.sigints < MaxSigints
    /\ ~life.ctrlc_panicked
    /\ LifeStep(IF life.drop_chan.receiver
                THEN [life EXCEPT !.sigints = @ + 1, !.drop_chan = Send(@)]
                ELSE [life EXCEPT !.sigints = @ + 1, !.ctrlc_panicked = TRUE])

\* The mount is taken away from outside (umount by an operator)
Unmount ==
    /\ Running
    /\ life.mounted
    /\ life.fuse = "serving"
    /\ LifeStep([life EXCEPT !.mounted = FALSE])

\* destroy(), called by the session once the mount has gone and init()
\* had returned: self.destroy.send(()).unwrap()
Destroy ==
    /\ Running
    /\ life.fuse = "serving"
    /\ ~life.mounted
    /\ LifeStep(IF life.drop_chan.receiver
                THEN [life EXCEPT !.fuse = "ended", !.drop_chan = Send(@)]
                ELSE [life EXCEPT !.fuse = "panicked"])

\* main() going on to the removal without a shutdown message
MainRecv_without_message ==
    /\ life.main = "recv"
    /\ LifeStep([life EXCEPT !.main = "remove_file"])

\* drop_recv.recv().unwrap()
MainRecv ==
    /\ life.main = "recv"
    /\ life.drop_chan.queued > 0
    /\ LifeStep([life EXCEPT !.main = "remove_file", !.drop_chan = Recv(@)])

\* fs::remove_file of the sentinel, its result ignored
MainRemoveFile ==
    /\ life.main = "remove_file"
    /\ LifeStep([life EXCEPT !.main = "drop_guard", !.sentinel = FALSE, !.removed = @ + 1])

\* drop(guard): the mount is released
MainDropGuard ==
    /\ life.main = "drop_guard"
    /\ LifeStep([life EXCEPT !.main = "return", !.mounted = FALSE, !.released = TRUE])

\* main() returns: drop_recv is dropped
MainReturn ==
    /\ life.main = "return"
    /\ LifeStep([life EXCEPT !.main = "exiting", !.drop_chan.receiver = FALSE])

\* the process ends
MainExit ==
    /\ life.main = "exiting"
    /\ LifeStep([life EXCEPT !.main = "exited"])

NextLife ==
    \/ MainMount
    \/ InitStart
    \/ InitInsert
    \/ InitSend
    \/ ListenerRecv
    \/ ListenerRecvErr
    \/ ListenerCreate
    \/ Sigint
    \/ Unmount
    \/ Destroy
    \/ MainRecv
    \/ MainRemoveFile
    \/ MainDropGuard
    \/ MainReturn
    \/ MainExit

SpecLife == InitLife /\ [][NextLife]_vars

\* main() is a thread of its own that the scheduler keeps running: each of
\* its steps is taken once it stays possible.
SpecLifeFair ==
    /\ SpecLife
    /\ WF_vars(MainMount)
    /\ WF_vars(MainRecv)
    /\ WF_vars(MainRemoveFile)
    /\ WF_vars(MainDropGuard)

(***************************************************************************)
(* Properties.                                                             *)
(***************************************************************************)
Occurrences(seq, x) == Cardinality({i \in 1..Len(seq) : seq[i] = x})
Allocated(i) == i \in RealInos /\ inodes[i].kind # "Free"
CallPath == get_path(attrs, last.args.ino, last.args.name)
SinkOps == {"lookup", "getattr", "setattr", "readlink", "mknod", "mkdir", "unlink", "rmdir",
            "symlink", "rename", "link", "open", "read", "write", "release", "opendir",
            "readdir", "releasedir", "statfs", "access", "fallocate", "copy_file_range"}
MutatingOps == {"setattr", "mknod", "mkdir", "symlink", "rename", "link", "write"}

\* C1: a listing of an unchanged directory that starts at offset 0 and resumes
\* at the next_offset of the last entry accepted has, once a call returns no
\* entry, returned every name of the directory exactly once, for every
\* reply-buffer capacity of at least one entry.
C1_ListingReturnsEveryEntryOnce ==
    session.done =>
        \A n \in Names :
            Occurrences(session.seen, n) =
                IF Exists(FS, Append(attrs[session.ino].real_path, n)) THEN 1 ELSE 0

\* C2: every inode number sent to the kernel in an entry reply (lookup,
\* mknod, mkdir, symlink, link) or in a ReadDirectory entry, and whose real
\* inode still exists, is a key of the table.
C2_ReturnedInodesAreKeys ==
    phase = "mounted" =>
        \A i \in given \cup listed :
            (i = FUSE_ROOT_ID \/ Allocated(i)) => i \in DOMAIN attrs

\* C3: every table entry's real_path names a real entry that exists and has
\* the entry's inode number (read with or without following a final symlink).
C3_RealPathNamesTheEntry ==
    phase = "mounted" =>
        \A k \in DOMAIN attrs :
            \/ Stat(FS, attrs[k].real_path) = [err |-> "", ino |-> attrs[k].ino]
            \/ LStat(FS, attrs[k].real_path) = [err |-> "", ino |-> attrs[k].ino]

\* the type a creation call asked for
RequestedKind ==
    CASE last.op = "mknod" -> as_file_kind(last.args.mode)
      [] last.op = "mkdir" -> "Directory"
      [] OTHER -> "Symlink"

\* C4: after mknod (regular-file, symlink or directory type bits), mkdir or
\* symlink replied with an entry, a Lookup of the same parent and name replies
\* with a record whose kind is the type requested at creation.
C4_LookupKindIsRequestedKind ==
    (last.op \in {"mknod", "mkdir", "symlink"} /\ last.reply.kind = "entry") =>
        LET r == lookup(attrs, FS, last.args.ino, last.args.name).reply
        IN  r.kind = "entry" /\ r.rec.kind = RequestedKind

\* C5: every call of a handler that has a reply sink sends exactly one reply
\* or error through it.
C5_ExactlyOneReply == last.op \in SinkOps => last.reply.n = 1

\* min(size, max(0, L - offset)) over the integers, for L: u64, offset: i64,
\* size: u32.  With offset < 0 the difference is L + |offset|, which is at
\* least size as soon as L or |offset| is.
WantReadSize(L, offset, size) ==
    IF offset.neg
    THEN IF ~Lt64(L, size) \/ ~Lt64(offset.mag, size) THEN size
         ELSE min(size, Add64(L, offset.mag))
    ELSE min(size, saturating_sub(L, offset.mag))

\* C6: read() on a file of length L returns min(size, max(0, L - offset))
\* bytes, for every L, offset and size of their widths.
C6_ReadSizeIsClippedLength ==
    calc.done => calc.out = WantReadSize(calc.file_size, calc.offset, calc.size)

\* C7: after a Write that replied written = len(data), a Read at the same
\* offset with size >= len(data) returns bytes that begin with data, and
\* returns exactly data when the write ended at end of file.
C7_ReadAfterWriteReturnsData ==
    (last.op = "write" /\ last.reply.kind = "written"
        /\ last.reply.data = <<Len(last.args.data)>>) =>
        \A size \in {n \in Sizes : ~Lt64(n, U64(Len(last.args.data)))} :
            LET r == read(attrs, FS, last.args.ino, last.args.offset, size).reply
                file == FsOpenRead(FS, attrs[last.args.ino].real_path)
                atEof == inodes[file.ino].len =
                            U64(Nat64(last.args.offset.mag) + Len(last.args.data))
            IN  /\ r.kind = "data"
                /\ Len(r.data) >= Len(last.args.data)
                /\ SubSeq(r.data, 1, Len(last.args.data)) = last.args.data
                /\ atEof => r.data = last.args.data

\* C8: a call of a mutating handler (setattr, mknod, mkdir, symlink, rename,
\* link, write) that replies with an error leaves the table as it was.
C8_ErrorLeavesTableUnchanged ==
    [][(last'.op \in MutatingOps /\ last'.reply.kind = "error") => attrs' = attrs]_vars

\* C8 witness: symlink() replied ENOENT although the symlink was created: the
\* real operation succeeded and the metadata re-read of the dangling link failed.
C8_Witness ==
    /\ last.op = "symlink"
    /\ last.reply.kind = "error"
    /\ last.reply.err = "ENOENT"
    /\ last.args.ino \in DOMAIN attrs
    /\ LStat(FS, CallPath).err = ""
    /\ inodes[LStat(FS, CallPath).ino].kind = "Symlink"

\* C9: a successful unlink or rmdir of (parent, name) removes the table entry
\* of the object the name referred to, leaves every other entry as it was,
\* and a following Lookup(parent, name) replies ENOENT.
C9_RemovalDropsOnlyTheObject ==
    [][(last'.op \in {"unlink", "rmdir"} /\ last'.reply.kind = "empty") =>
        LET parent == last'.args.ino
            name == last'.args.name
            object == LStat(FS, get_path(attrs, parent, name)).ino
        IN  /\ object \notin DOMAIN attrs'
            /\ \A k \in (DOMAIN attrs) \ {object} :
                   k \in DOMAIN attrs' /\ attrs'[k] = attrs[k]
            /\ lookup(attrs', [dents |-> dents', inodes |-> inodes', next |-> nextIno'],
                      parent, name).reply = ReplyError("ENOENT")]_vars

\* C10: a successful rename adds no key to the table, and the entry keyed by
\* the moved object's inode has the destination path as real_path and the
\* inode number a fresh metadata read of the destination reports.
C10_RenameRefreshesMovedEntry ==
    [][(last'.op = "rename" /\ last'.reply.kind = "empty") =>
        LET path == get_path(attrs, last'.args.ino, last'.args.name)
            newpath == get_path(attrs, last'.args.newparent, last'.args.newname)
            moved == LStat(FS, path).ino
            F1 == [dents |-> dents', inodes |-> inodes', next |-> nextIno']
        IN  /\ DOMAIN attrs' \subseteq DOMAIN attrs
            /\ moved \in DOMAIN attrs'
            /\ attrs'[moved].real_path = newpath
            /\ attrs'[moved].ino \in {Stat(F1, newpath).ino, LStat(F1, newpath).ino}]_vars

\* the change class setattr() acts on: the first one present
FirstClass(a) ==
    CASE a.mode # -1 -> "mode"
      [] a.uid # -1 \/ a.gid # -1 -> "owner"
      [] a.newsize.some -> "size"
      [] a.atime.tag # "None" -> "atime"
      [] OTHER -> "mtime"

\* C11: a setattr call that replies with a record changed, on the real entry
\* behind the inode's real_path, only what its first present class changes
\* (a truncation also sets the modification time), changed no other real
\* entry, refreshed the table entry of the inode from the real filesystem and
\* replied with that refreshed record.
C11_SetattrAppliesFirstClass ==
    [][(last'.op = "setattr" /\ last'.reply.kind = "attr") =>
        LET a == last'.args
            path == attrs[a.ino].real_path
            t == Stat(FS, path).ino
            old == inodes[t]
            new == inodes'[t]
            class == FirstClass(a)
            F1 == [dents |-> dents', inodes |-> inodes', next |-> nextIno']
        IN  /\ class # "mode" => new.mode = old.mode
            /\ class # "owner" => new.uid = old.uid /\ new.gid = old.gid
            /\ class # "size" => new.len = old.len /\ new.data = old.data
            /\ class # "atime" => new.atime = old.atime
            /\ class \notin {"mtime", "size"} => new.mtime = old.mtime
            /\ dents' = dents
            /\ \A i \in RealInos \ {t} : inodes'[i] = inodes[i]
            /\ a.ino \in DOMAIN attrs'
            /\ attrs'[a.ino] = FromMetadata(F1, Stat(F1, path).ino, path)
            /\ last'.reply.rec = attrs'[a.ino]]_vars

\* a mode change asked for by a requester that is neither uid 0 nor the
\* cached owner of the entry
StrangerChmod(a, T) ==
    /\ a.mode # -1
    /\ a.ino \in DOMAIN T
    /\ a.req_uid # 0
    /\ a.req_uid # T[a.ino].uid

\* C12: setattr with a mode change by a requester that is neither uid 0 nor
\* the cached owner replies EPERM and leaves every real mode and the table
\* as they were, whatever other classes the call carries.
C12_StrangerChmodIsDenied ==
    [][(last'.op = "setattr" /\ StrangerChmod(last'.args, attrs)) =>
        /\ last'.reply = ReplyError("EPERM")
        /\ \A i \in RealInos : inodes'[i].mode = inodes[i].mode
        /\ attrs' = attrs]_vars

\* C12 witness: a denied mode change that also carried an ownership, a size
\* and two time changes.
C12_Witness ==
    /\ last.op = "setattr"
    /\ StrangerChmod(last.args, attrs)
    /\ last.args.uid # -1
    /\ last.args.newsize.some
    /\ last.args.atime.tag # "None"
    /\ last.reply.err = "EPERM"

\* Bit b (a power of two) of x >= 0, the permission triple that starts at
\* bit `shift` of a mode, and whether a triple has every bit a mask asks for.
HasBit(x, b) == (x \div b) % 2 = 1
Triad(file_mode, shift) == (file_mode[1] \div (2 ^ shift)) % 8
Grants(triad, mask) == \A b \in {R_OK, W_OK, X_OK} : HasBit(mask, b) => HasBit(triad, b)

\* C13: for a requester other than uid 0, check_access is true exactly when
\* every requested bit is in the owner triple (uid = file_uid), else the
\* group triple (gid = file_gid), else the other triple.
C13_TriadOfTheRequesterDecides ==
    (calc.done /\ calc.uid # 0) =>
        calc.out = Grants(Triad(calc.file_mode,
                                IF calc.uid = calc.file_uid THEN 6
                                ELSE IF calc.gid = calc.file_gid THEN 3 ELSE 0),
                          calc.mask)

\* C13 witness: a group member is refused a bit that the owner and other
\* triples and the file-type and setuid bits all carry.
C13_Witness ==
    /\ calc.done
    /\ calc.uid = FileOwner + 1
    /\ calc.gid = calc.file_gid
    /\ calc.mask = W_OK
    /\ Triad(calc.file_mode, 6) = 7
    /\ Triad(calc.file_mode, 3) = R_OK + X_OK
    /\ Triad(calc.file_mode, 0) = 7
    /\ calc.file_mode[1] >= S_IFREG
    /\ ~calc.out

\* C14: for uid 0, check_access is true for every mask without X_OK, and for
\* a mask with X_OK exactly when some execute bit is set in the mode.
C14_RootNeedsAnExecuteBit ==
    (calc.done /\ calc.uid = 0) =>
        calc.out = (HasBit(calc.mask, X_OK) =>
                        \E s \in {0, 3, 6} : HasBit(Triad(calc.file_mode, s), X_OK))

\* C14 witness: uid 0 asks for R_OK | X_OK on mode 0666 and is refused.
C14_Witness ==
    /\ calc.done
    /\ calc.uid = 0
    /\ calc.mask = R_OK + X_OK
    /\ Triad(calc.file_mode, 6) = R_OK + W_OK
    /\ Triad(calc.file_mode, 3) = R_OK + W_OK
    /\ Triad(calc.file_mode, 0) = R_OK + W_OK
    /\ ~calc.out

\* C15: in every mounted state, for every inode number, requester and mask,
\* access() replies ENOENT when the inode is not a key of the table, success
\* when it is a key and the mask is F_OK, and EACCES exactly when the inode
\* is a key and check_access is false on the cached uid, gid and mode.
C15_AccessFollowsCheckAccess ==
    phase = "mounted" =>
        \A ino \in 1..MaxIno, u \in Requesters, g \in {FileOwner, FileOwner + 1},
           k \in AccessMasks :
            LET r == access(attrs, FS, ino, u, g, k).reply
                known == ino \in DOMAIN attrs
            IN  /\ ~known => r = ReplyError("ENOENT")
                /\ (known /\ k = F_OK) => r = ReplyOk("empty")
                /\ r = ReplyError("EACCES") <=>
                       (known /\ ~check_access(attrs[ino].uid, attrs[ino].gid,
                                               U32(attrs[ino].mode), u, g, k))
                /\ r.kind \in {"empty", "error"}

\* C15 witness: a stranger asked for W_OK on an entry whose cached mode gives
\* others no write bit, and access() replied EACCES.
C15_Witness ==
    /\ last.op = "access"
    /\ last.args.ino \in DOMAIN attrs
    /\ last.args.req_uid \notin {0, attrs[last.args.ino].uid}
    /\ last.args.mask = W_OK
    /\ ~HasBit(attrs[last.args.ino].mode, W_OK)
    /\ last.reply = ReplyError("EACCES")

\* the file-type bits of a mode are ones mknod() supports
SupportedType(mode) == (mode % (2 * S_IFMT)) \div S_IFIFO \in {S_IFREG \div S_IFIFO,
                                                               S_IFLNK \div S_IFIFO,
                                                               S_IFDIR \div S_IFIFO}

\* C16: mknod() under a parent that is a real directory replies ENOSYS for
\* type bits other than regular file, symlink or directory, and EEXIST when
\* the name already exists under the parent, both without changing the real
\* tree or the table; otherwise it creates the real entry and inserts the
\* record freshly read from it, which it also replies.
C16_MknodOutcomes ==
    [][(last'.op = "mknod" /\ ~last'.panic
            /\ Stat(FS, attrs[last'.args.ino].real_path).err = ""
            /\ inodes[Stat(FS, attrs[last'.args.ino].real_path).ino].kind = "Directory") =>
        LET path == get_path(attrs, last'.args.ino, last'.args.name)
            F1 == [dents |-> dents', inodes |-> inodes', next |-> nextIno']
            r == last'.reply
            same == dents' = dents /\ inodes' = inodes /\ attrs' = attrs
        IN  IF ~SupportedType(last'.args.mode) THEN r = ReplyError("ENOSYS") /\ same
            ELSE IF LStat(FS, path).err = "" THEN r = ReplyError("EEXIST") /\ same
            ELSE /\ r.kind = "entry"
                 /\ LStat(F1, path).err = ""
                 /\ r.rec = FromMetadata(F1, LStat(F1, path).ino, path)
                 /\ r.rec.ino \in DOMAIN attrs'
                 /\ attrs'[r.rec.ino] = r.rec]_vars

\* C17: open() and opendir() reply EINVAL when the access-mode bits are none
\* of O_RDONLY, O_WRONLY, O_RDWR; an error for O_RDONLY with O_TRUNC; with
\* flags that pass and a known inode, EISDIR (open) or ENOTDIR (opendir) when
\* the cached kind is not File or Directory respectively; a handle only when
\* all of these checks pass; and they never change the table.
C17_OpenChecksFlagsAndKind ==
    [][(last'.op \in {"open", "opendir"}) =>
        LET a == last'.args
            r == last'.reply
            acc == a.flags % (O_ACCMODE + 1)
            badMode == acc \notin {O_RDONLY, O_WRONLY, O_RDWR}
            roTrunc == acc = O_RDONLY /\ HasBit(a.flags, O_TRUNC)
            want == IF last'.op = "open" THEN "File" ELSE "Directory"
            known == a.ino \in DOMAIN attrs
        IN  /\ attrs' = attrs
            /\ badMode => r = ReplyError("EINVAL")
            /\ roTrunc => r.kind = "error"
            /\ (~badMode /\ ~roTrunc /\ known /\ attrs[a.ino].kind # want) =>
                   r = ReplyError(IF last'.op = "open" THEN "EISDIR" ELSE "ENOTDIR")
            /\ r.kind = "open" =>
                   (~badMode /\ ~roTrunc /\ known /\ attrs[a.ino].kind = want)]_vars

\* C17 witness: open() with O_RDWR on an entry cached as a directory replied
\* EISDIR.
C17_Witness ==
    /\ last.op = "open"
    /\ last.args.flags = O_RDWR
    /\ last.args.ino \in DOMAIN attrs
    /\ attrs[last.args.ino].kind = "Directory"
    /\ last.reply = ReplyError("EISDIR")

\* C18: once mknod() has created the only entry of a directory made below
\* the root, readdir() of that directory from offset 0, with room for every
\* entry, yields exactly ".", ".." and the new name, with strictly
\* increasing next offsets.
C18_ListingHasDotEntries ==
    (/\ last.op = "mknod"
     /\ last.reply.kind = "entry"
     /\ last.args.ino # FUSE_ROOT_ID
     /\ last.args.ino \in DOMAIN attrs
     /\ Len(attrs[last.args.ino].real_path) = 1
     /\ Children(FS, attrs[last.args.ino].real_path) = {CallPath}) =>
        LET r == readdir(attrs, FS, last.args.ino, 0, Cardinality(Names) + 2).reply
        IN  /\ r.kind = "directory"
            /\ Len(r.data) = 3
            /\ {r.data[i].name : i \in 1..Len(r.data)} = {".", "..", last.args.name}
            /\ \A i \in 1..(Len(r.data) - 1) : r.data[i].next < r.data[i + 1].next

\* the table init() builds from the real tree, the root under FUSE_ROOT_ID
\* and every other entry under its own inode number
WalkedTable ==
    /\ attrs = init(<<>>, FS)
    /\ FUSE_ROOT_ID \in DOMAIN attrs
    /\ attrs[FUSE_ROOT_ID].real_path = <<>>
    /\ \A p \in Paths \ {<<>>} :
          Exists(FS, p) =>
              /\ dents[p] \in DOMAIN attrs
              /\ attrs[dents[p]].ino = dents[p]
              /\ LStat(FS, attrs[dents[p]].real_path).ino = dents[p]

\* C19: the ready signal is sent at most once and only when the walk has
\* inserted its last entry; once init() has returned the table holds the
\* root under FUSE_ROOT_ID and every other walked entry under its real inode
\* number, and the signal has been sent exactly once.
C19_InitFillsTableThenSignalsOnce ==
    /\ life.init_chan.sent <= 1
    /\ life.init_chan.sent = 1 => (life.walk = <<>> /\ life.fuse # "start" /\ WalkedTable)
    /\ life.fuse \in {"serving", "ended"} => (life.init_chan.sent = 1 /\ WalkedTable)

\* C19 witness: init() has returned on a tree of four entries
C19_Witness ==
    /\ life.fuse = "serving"
    /\ phase = "mounted"
    /\ life.init_chan.sent = 1
    /\ Cardinality(DOMAIN attrs) = 4

\* C20: the sentinel exists only if the listener created it; the listener
\* is past recv() only with the ready signal received, which init() sent
\* after the walk had inserted every entry; without a ready signal sent the
\* sentinel is never created.
C20_SentinelOnlyAfterReady ==
    /\ life.sentinel => life.created > 0
    /\ (life.listener \in {"create", "done"} \/ life.created > 0) =>
          /\ life.init_chan.rcvd = 1
          /\ life.init_chan.sent = 1
          /\ life.walk = <<>>
          /\ life.fuse \in {"serving", "ended", "panicked"}
          /\ WalkedTable
    /\ life.init_chan.sent = 0 => (life.created = 0 /\ ~life.sentinel)

\* C20 witness: the listener has created the sentinel
C20_Witness ==
    /\ life.listener = "done"
    /\ life.sentinel
    /\ life.created = 1
    /\ life.init_chan.rcvd = 1

\* C21: the ready signal and the shutdown signal are each sent at most once
\* and received at most once, and when main() has ended each has been sent
\* exactly once and received exactly once.
C21_EachSignalSentAndReceivedOnce ==
    /\ \A ch \in {life.init_chan, life.drop_chan} : ch.sent <= 1 /\ ch.rcvd <= 1
    /\ life.main = "exited" =>
          \A ch \in {life.init_chan, life.drop_chan} : ch.sent = 1 /\ ch.rcvd = 1

C24_LinkAddsAName ==
    [][(/\ last'.op = "link"
        /\ nops' = nops + 1
        /\ ~last'.panic
        /\ attrs[last'.args.ino].kind = "File"
        /\ LStat(FS, attrs[last'.args.ino].real_path) = [err |-> "", ino |-> last'.args.ino]
        /\ inodes[last'.args.ino].kind = "File"
        /\ LStat(FS, get_path(attrs, last'.args.newparent, last'.args.newname)).err
              = "ENOENT") =>
          LET ino     == last'.args.ino
              newpath == get_path(attrs, last'.args.newparent, last'.args.newname)
              after   == [dents |-> dents', inodes |-> inodes', next |-> nextIno']
          IN  /\ last'.reply.kind = "entry"
              /\ last'.reply.rec.ino = ino
              /\ LStat(after, newpath) = [err |-> "", ino |-> ino]
              /\ NLink(after, ino) = NLink(FS, ino) + 1
              /\ ino \in DOMAIN attrs'
              /\ attrs'[ino] = FromMetadata(after, ino, newpath)]_vars

\* C25: a step in which a key leaves the table is a call of unlink or rmdir
\* that replied ok and removed a real name, and it takes exactly one key
\* away; no other step (forget, release, releasedir, a removal that failed,
\* any other handler, init) takes a key away.
C25_KeysLeaveOnlyOnRemoval ==
    [][(DOMAIN attrs) \ (DOMAIN attrs') # {} =>
          /\ last'.op \in {"unlink", "rmdir"}
          /\ nops' = nops + 1
          /\ last'.reply = ReplyOk("empty")
          /\ dents[Resolve(FS, get_path(attrs, last'.args.ino, last'.args.name), FALSE).path] # 0
          /\ dents'[Resolve(FS, get_path(attrs, last'.args.ino, last'.args.name), FALSE).path] = 0
          /\ Cardinality((DOMAIN attrs) \ (DOMAIN attrs')) = 1]_vars

\* C25 witness: an unlink or rmdir has replied ok and the inode number an
\* earlier reply carried is no longer a key
C25_Witness ==
    /\ last.op \in {"unlink", "rmdir"}
    /\ last.reply = ReplyOk("empty")
    /\ Stat(FS, CallPath).err = "ENOENT"
    /\ \E i \in given : i \notin DOMAIN attrs

C27_GetattrRepliesTheRequestedInode ==
    /\ [](\A k \in DOMAIN attrs : attrs[k].ino = k)
    /\ [][(last'.op = "getattr" /\ nops' = nops + 1 /\ last'.args.ino \in DOMAIN attrs) =>
             /\ last'.reply = ReplyRec("attr", attrs[last'.args.ino])
             /\ last'.reply.rec.ino = last'.args.ino
             /\ attrs' = attrs
             /\ UNCHANGED <<dents, inodes, nextIno>>]_vars

\* C28: once main() has removed the sentinel and dropped the guard, the
\* sentinel file does not exist.
C28_NoSentinelAfterShutdown ==
    (life.removed = 1 /\ life.released) => ~life.sentinel

\* an inode number names a real entry: the root, or an inode with a name
HasRealEntry(i) == i = FUSE_ROOT_ID \/ (Allocated(i) /\ \E p \in Paths : dents[p] = i)
\* an inode number the kernel may pass as a parent: one it was given, that
\* names a real directory
KnownDir(i) ==
    /\ i \in given
    /\ HasRealEntry(i)
    /\ i # FUSE_ROOT_ID => inodes[i].kind = "Directory"

\* C29: a call whose parent (and new parent) is the inode number of a real
\* directory that an earlier entry reply carried, or the root's, and for
\* link whose inode is one that an earlier reply carried and that still
\* has a real name, does not panic in get_path.
C29_KnownParentIsFound ==
    [][(/\ nops' = nops + 1
        /\ last'.op \in {"lookup", "mknod", "mkdir", "unlink", "rmdir", "symlink", "rename",
                         "link"}
        /\ IF last'.op = "link"
           THEN last'.args.ino \in given /\ HasRealEntry(last'.args.ino)
           ELSE KnownDir(last'.args.ino)
        /\ last'.op \in {"rename", "link"} => KnownDir(last'.args.newparent)) =>
          ~last'.panic]_vars

\* C30: a setattr that carries an access time and no other attribute, and
\* replies with a record, leaves the modification time of the real entry as
\* it was; one that carries a modification time and no other attribute
\* leaves the real access time as it was.
C30_OtherTimestampIsKept ==
    [][(/\ last'.op = "setattr"
        /\ nops' = nops + 1
        /\ last'.reply.kind = "attr"
        /\ last'.args.mode = -1 /\ last'.args.uid = -1 /\ last'.args.gid = -1
        /\ ~last'.args.newsize.some) =>
          LET a == last'.args
              i == Stat(FS, attrs[a.ino].real_path).ino
          IN  /\ (a.atime.tag # "None" /\ a.mtime.tag = "None") =>
                    inodes'[i].mtime = inodes[i].mtime
              /\ (a.atime.tag = "None" /\ a.mtime.tag # "None") =>
                    inodes'[i].atime = inodes[i].atime]_vars

\* C31: an Unlink that replies ok and removes one name of a regular file
\* whose inode number the kernel was given, was a key of the table, and
\* keeps another real name, leaves the inode usable: a getattr, an open for
\* reading or a read of that inode right after it does not reply ENOENT.
C31_OtherNameKeepsInodeUsable ==
    [][(/\ last'.op = "unlink"
        /\ nops' = nops + 1
        /\ last'.reply = ReplyOk("empty")
        /\ last'.args.ino \in DOMAIN attrs
        /\ LET i == LStat(FS, get_path(attrs, last'.args.ino, last'.args.name)).ino
           IN  /\ i \in given
               /\ i \in DOMAIN attrs
               /\ inodes[i].kind = "File"
               /\ \E p \in Paths : dents'[p] = i) =>
          LET i     == LStat(FS, get_path(attrs, last'.args.ino, last'.args.name)).ino
              after == [dents |-> dents', inodes |-> inodes', next |-> nextIno']
          IN  /\ getattr(attrs', after, i).reply.err # "ENOENT"
              /\ open(attrs', after, i, O_RDONLY).reply.err # "ENOENT"
              /\ read(attrs', after, i, I64(0), U64(1)).reply.err # "ENOENT"]_vars

====
